---------------------------- MODULE Spec2Model ----------------------------
(***************************************************************************)
(* A model of trench's browser cookie extraction (core/cookies.ts):        *)
(* decryptChromeCookie, extractChromiumCookies, extractFirefoxCookies,     *)
(* extractSafariCookies, extractTwitterCookies and listAvailableBrowsers.  *)
(*                                                                         *)
(* Buffers are sequences of bytes (0..255), JavaScript strings are         *)
(* sequences of code points; Buffer.toString('utf-8') and Buffer.from(str) *)
(* are modelled by a UTF-8 decoder and encoder.  node:crypto's AES-128 is  *)
(* a library primitive: it is modelled as a keyed permutation of 16-byte   *)
(* blocks, and the CBC chaining, the IV and the padding that the           *)
(* repository's code chooses are modelled as the code uses them.           *)
(***************************************************************************)
EXTENDS Integers, Sequences, FiniteSets, TLC

VARIABLES
    world,      \* the host: browser directories, cookie stores, keychain
    clock,      \* Date.now()
    tmp,        \* the files the calls may write, by path
    pc,         \* per process: where it stands in its call
    loc,        \* per process: the local variables of its call
    retval,     \* per process: what its call returned
    log,        \* per process: the extractor calls that returned, in order
    sys,        \* per process: the file system, process and library calls made
    input,      \* arguments of the pure function under analysis
    output,     \* its return value
    phase       \* "ready" before the call, "returned" after it

vars == <<world, clock, tmp, pc, loc, retval, log, sys, input, output, phase>>

hostVars == <<world, clock, tmp, pc, loc, retval, log, sys>>
pureVars == <<input, output, phase>>

\* the two processes that may run the extraction at the same time
Procs == {1, 2}

\* no process runs: the state of the analyses of the pure functions
NoHost ==
    /\ world = [chromium |-> <<>>, firefox |-> <<>>, safari |-> "none",
                keychain |-> "granted"]
    /\ clock = 0
    /\ tmp = <<>>
    /\ pc = [p \in Procs |-> "off"]
    /\ loc = [p \in Procs |-> <<>>]
    /\ retval = [p \in Procs |-> <<>>]
    /\ log = [p \in Procs |-> <<>>]
    /\ sys = [p \in Procs |-> {}]

\* no pure function is under analysis
NoPure ==
    /\ input = <<>>
    /\ output = <<>>
    /\ phase = "off"

-----------------------------------------------------------------------------
(* Bytes, buffers and strings *)

Byte == 0..255

Min(a, b) == IF a < b THEN a ELSE b
Max(a, b) == IF a > b THEN a ELSE b

\* Buffer.slice(from, to) / String.slice with 0-based, end-exclusive indexes
Slice(s, from, to) == SubSeq(s, Min(from, Len(s)) + 1, Min(to, Len(s)))

\* Buffer.slice(from)
SliceFrom(s, from) == SubSeq(s, Min(from, Len(s)) + 1, Len(s))

\* Buffer.alloc(n, fill)
BufferAlloc(n, fill) == [i \in 1..n |-> fill]

RECURSIVE Xor(_, _)
\* the bitwise exclusive or of two bytes
Xor(a, b) ==
    IF a = 0 THEN b
    ELSE IF b = 0 THEN a
    ELSE ((a + b) % 2) + 2 * Xor(a \div 2, b \div 2)

ReplacementChar == 65533

IsCont(b, lo, hi) == b >= lo /\ b <= hi

RECURSIVE Utf8DecodeFrom(_, _)
\* Buffer.toString('utf-8') from 1-based position i: the WHATWG decoder, which
\* replaces every maximal ill-formed subsequence by U+FFFD
Utf8DecodeFrom(b, i) ==
    IF i > Len(b) THEN <<>>
    ELSE LET c == b[i]
             has(k) == i + k <= Len(b)
             lo2 == IF c = 224 THEN 160 ELSE IF c = 240 THEN 144 ELSE 128
             hi2 == IF c = 237 THEN 159 ELSE IF c = 244 THEN 143 ELSE 191
             need == IF c >= 194 /\ c <= 223 THEN 1
                     ELSE IF c >= 224 /\ c <= 239 THEN 2
                     ELSE IF c >= 240 /\ c <= 244 THEN 3
                     ELSE 0
             ok1 == has(1) /\ IsCont(b[i + 1], lo2, hi2)
             ok2 == ok1 /\ has(2) /\ IsCont(b[i + 2], 128, 191)
             ok3 == ok2 /\ has(3) /\ IsCont(b[i + 3], 128, 191)
         IN  IF c <= 127 THEN <<c>> \o Utf8DecodeFrom(b, i + 1)
             ELSE IF need = 0 THEN <<ReplacementChar>> \o Utf8DecodeFrom(b, i + 1)
             ELSE IF ~ok1 THEN <<ReplacementChar>> \o Utf8DecodeFrom(b, i + 1)
             ELSE IF need = 1
                  THEN <<(c - 192) * 64 + (b[i + 1] - 128)>> \o Utf8DecodeFrom(b, i + 2)
             ELSE IF ~ok2 THEN <<ReplacementChar>> \o Utf8DecodeFrom(b, i + 2)
             ELSE IF need = 2
                  THEN <<(c - 224) * 4096 + (b[i + 1] - 128) * 64 + (b[i + 2] - 128)>>
                       \o Utf8DecodeFrom(b, i + 3)
             ELSE IF ~ok3 THEN <<ReplacementChar>> \o Utf8DecodeFrom(b, i + 3)
             ELSE <<(c - 240) * 262144 + (b[i + 1] - 128) * 4096
                    + (b[i + 2] - 128) * 64 + (b[i + 3] - 128)>>
                  \o Utf8DecodeFrom(b, i + 4)

\* Buffer.toString('utf-8')
BufferToString(b) == Utf8DecodeFrom(b, 1)

\* the UTF-8 bytes of one code point
Utf8EncodeChar(c) ==
    IF c < 128 THEN <<c>>
    ELSE IF c < 2048 THEN <<192 + (c \div 64), 128 + (c % 64)>>
    ELSE IF c < 65536
         THEN <<224 + (c \div 4096), 128 + ((c \div 64) % 64), 128 + (c % 64)>>
    ELSE <<240 + (c \div 262144), 128 + ((c \div 4096) % 64),
           128 + ((c \div 64) % 64), 128 + (c % 64)>>

RECURSIVE BufferFromString(_)
\* Buffer.from(str) / cipher.update(str, 'utf-8')
BufferFromString(s) ==
    IF s = <<>> THEN <<>>
    ELSE Utf8EncodeChar(Head(s)) \o BufferFromString(Tail(s))

-----------------------------------------------------------------------------
(* node:crypto: a 16-byte block cipher in CBC mode *)

BlockSize == 16

\* a byte substitution and its inverse (167 * 23 = 1 mod 256)
SubByte(x) == (x * 167 + 13) % 256
InvSubByte(y) == (((y + 256 - 13) % 256) * 23) % 256

\* a permutation of the 16 byte positions
ShiftPos(i) == (((i - 1) * 5) % 16) + 1

\* one block under a 16-byte key: key addition, byte permutation, substitution
BlockEncrypt(key, block) ==
    [i \in 1..BlockSize |-> SubByte(Xor(block[ShiftPos(i)], key[i]))]

\* the inverse permutation of BlockEncrypt(key, _)
BlockDecrypt(key, block) ==
    LET pre == [i \in 1..BlockSize |-> Xor(InvSubByte(block[i]), key[i])]
    IN  [j \in 1..BlockSize |->
            pre[CHOOSE i \in 1..BlockSize : ShiftPos(i) = j]]

XorBlock(a, b) == [i \in 1..BlockSize |-> Xor(a[i], b[i])]

\* PKCS#7: 1 to 16 bytes, each holding the pad length
Pkcs7Pad(data) ==
    LET n == BlockSize - (Len(data) % BlockSize)
    IN  data \o [i \in 1..n |-> n]

RECURSIVE CbcEncryptBlocks(_, _, _)
CbcEncryptBlocks(key, prev, data) ==
    IF data = <<>> THEN <<>>
    ELSE LET c == BlockEncrypt(key, XorBlock(SubSeq(data, 1, BlockSize), prev))
         IN  c \o CbcEncryptBlocks(key, c, SubSeq(data, BlockSize + 1, Len(data)))

\* createCipheriv('aes-128-cbc', key, iv) with setAutoPadding(true)
CbcEncrypt(key, iv, plain) == CbcEncryptBlocks(key, iv, Pkcs7Pad(plain))

RECURSIVE CbcDecryptBlocks(_, _, _)
CbcDecryptBlocks(key, prev, data) ==
    IF data = <<>> THEN <<>>
    ELSE LET c == SubSeq(data, 1, BlockSize)
         IN  XorBlock(BlockDecrypt(key, c), prev)
             \o CbcDecryptBlocks(key, c, SubSeq(data, BlockSize + 1, Len(data)))

\* createDecipheriv('aes-128-cbc', key, iv), setAutoPadding(false), update and
\* final: it throws for a key that is not 16 bytes and for data that is not a
\* whole number of blocks
DecipherThrows(key, data) == Len(key) # BlockSize \/ Len(data) % BlockSize # 0

CbcDecryptNoPadding(key, iv, data) == CbcDecryptBlocks(key, iv, data)

-----------------------------------------------------------------------------
(* decryptChromeCookie *)

STR_v10 == <<118, 49, 48>>

\* Buffer.alloc(16, ' ')
ChromeIV == BufferAlloc(16, 32)

HashPrefixLen == 32

\* b < 32 || b > 126
NonPrintable(b) == b < 32 \/ b > 126

\* first32.some(b => b < 32 || b > 126)
HasNonPrintable(buf) == \E i \in 1..Len(buf) : NonPrintable(buf[i])

\* RemovePadding with the full-block pad (16) left in place
RemovePadding_Below16(decrypted) ==
    IF decrypted = <<>> THEN decrypted
    ELSE LET padding == decrypted[Len(decrypted)]
         IN  IF padding > 0 /\ padding < 16
             THEN SubSeq(decrypted, 1, Len(decrypted) - padding)
             ELSE decrypted

\* the PKCS7 step: the last byte, when in 1..16, is the number of bytes cut
RemovePadding(decrypted) ==
    IF decrypted = <<>> THEN decrypted
    ELSE LET padding == decrypted[Len(decrypted)]
         IN  IF padding > 0 /\ padding <= 16
             THEN SubSeq(decrypted, 1, Max(Len(decrypted) - padding, 0))
             ELSE decrypted

\* the hash prefix step on the unpadded buffer
StripHashPrefix(decrypted) ==
    IF Len(decrypted) > HashPrefixLen
       /\ HasNonPrintable(Slice(decrypted, 0, HashPrefixLen))
    THEN BufferToString(SliceFrom(decrypted, HashPrefixLen))
    ELSE BufferToString(decrypted)

\* HasV10Prefix looking at the first byte only
HasV10Prefix_FirstByte(encryptedValue) ==
    /\ Len(encryptedValue) >= 3
    /\ encryptedValue[1] = 118

\* whether the value carries the encryption marker
HasV10Prefix(encryptedValue) ==
    /\ Len(encryptedValue) >= 3
    /\ BufferToString(Slice(encryptedValue, 0, 3)) = STR_v10

decryptChromeCookie(encryptedValue, key) ==
    IF ~HasV10Prefix(encryptedValue) THEN BufferToString(encryptedValue)
    ELSE LET data == SliceFrom(encryptedValue, 3)
         IN  IF DecipherThrows(key, data) THEN <<>>
             ELSE StripHashPrefix(
                      RemovePadding(CbcDecryptNoPadding(key, ChromeIV, data)))

-----------------------------------------------------------------------------
(* Inputs of decryptChromeCookie *)

NumKeys == 2
MaxTextLen == 18

\* a 16-byte key, as pbkdf2Sync(password, 'saltysalt', 1003, 16, 'sha1') gives
TestKey(n) == [i \in 1..16 |-> (n * 17 + i * 29) % 256]

\* a text of len characters: letters, control characters whose last one equals
\* the length (it reads like a pad byte), or two-byte characters
TextOf(pat, len) ==
    [i \in 1..len |->
        CASE pat = 1 -> 97 + ((i - 1) % 26)
          [] pat = 2 -> i
          [] OTHER   -> 233]

\* what may precede the text in a decrypted buffer: nothing, a 32-byte binary
\* hash, 32 bytes printable but for the last, 32 printable bytes, 31 binary bytes
PrefixOf(pk) ==
    CASE pk = 0 -> <<>>
      [] pk = 1 -> [i \in 1..32 |-> i - 1]
      [] pk = 2 -> [i \in 1..32 |-> IF i = 32 THEN 200 ELSE 65]
      [] pk = 3 -> [i \in 1..32 |-> 65]
      [] OTHER  -> [i \in 1..31 |-> i - 1]

PlainBytes(pk, pat, len) == PrefixOf(pk) \o BufferFromString(TextOf(pat, len))

\* Buffer.concat([Buffer.from('v10'), encrypted])
ChromeEncrypt(key, plain) == STR_v10 \o CbcEncrypt(key, ChromeIV, plain)

\* values that were never encrypted, or whose ciphertext is damaged
SpecialValues ==
    { <<>>, <<118>>, <<118, 49>>, STR_v10,
      <<118, 49, 49>> \o BufferAlloc(16, 7),
      <<86, 49, 48>> \o BufferAlloc(16, 7),
      <<255, 65, 66>>, <<118, 49, 195>>,
      STR_v10 \o BufferAlloc(5, 9),
      STR_v10 \o BufferAlloc(16, 7),
      STR_v10 \o BufferAlloc(32, 0) }

DecryptInputs(maxTextLen, numKeys) ==
    { [kind |-> "encrypted", pk |-> pk, text |-> TextOf(pat, len),
       plainBytes |-> PlainBytes(pk, pat, len), encKey |-> ek, key |-> dk,
       encryptedValue |-> ChromeEncrypt(TestKey(ek), PlainBytes(pk, pat, len))] :
        pk \in 0..4, pat \in 1..3, len \in 0..maxTextLen,
        ek \in 1..numKeys, dk \in 1..numKeys }
    \cup
    { [kind |-> "raw", pk |-> pk, text |-> TextOf(pat, len),
       plainBytes |-> PlainBytes(pk, pat, len), encKey |-> 0, key |-> 1,
       encryptedValue |-> PlainBytes(pk, pat, len)] :
        pk \in 0..4, pat \in 1..3, len \in 0..maxTextLen }
    \cup
    { [kind |-> "raw", pk |-> 0, text |-> <<>>, plainBytes |-> v,
       encKey |-> 0, key |-> 1, encryptedValue |-> v] : v \in SpecialValues }

InitDecrypt ==
    /\ input \in DecryptInputs(MaxTextLen, NumKeys)
    /\ output = <<>>
    /\ phase = "ready"
    /\ NoHost

\* one call of decryptChromeCookie(encryptedValue, key)
DecryptCall ==
    /\ phase = "ready"
    /\ output' = decryptChromeCookie(input.encryptedValue, TestKey(input.key))
    /\ phase' = "returned"
    /\ UNCHANGED input
    /\ UNCHANGED hostVars

NextDecrypt == DecryptCall

SpecDecrypt == InitDecrypt /\ [][NextDecrypt]_vars

-----------------------------------------------------------------------------
(* Properties of decryptChromeCookie *)

\* the call returned the value of a buffer encrypted under the key it was given
DecryptedOwnValue ==
    /\ phase = "returned"
    /\ input.kind = "encrypted"
    /\ input.key = input.encKey

\* C7: a text of 1 to 16 bytes, encrypted with AES-128-CBC under PKCS#7 and the
\* IV of 16 spaces and prefixed with "v10", is returned by decryptChromeCookie
\* exactly as it was, whatever its pad length (1 to 16)
C7_RoundTrip ==
    (DecryptedOwnValue /\ input.pk = 0 /\ Len(input.plainBytes) \in 1..16)
        => output = input.text

\* a 16-byte text, which takes a whole block of padding, came back
C7_Witness ==
    /\ DecryptedOwnValue
    /\ input.pk = 0
    /\ Len(input.plainBytes) = 16
    /\ Len(input.encryptedValue) = 3 + 32
    /\ output = input.text

\* C8: the first 32 bytes of the unpadded decrypted buffer are dropped exactly
\* when one of them is outside 32..126; a buffer shorter than 32 bytes, or one
\* whose first 32 bytes are printable, is returned whole
C8_HashPrefixDropped ==
    DecryptedOwnValue =>
        LET d == input.plainBytes
        IN  output = IF Len(d) >= HashPrefixLen
                        /\ \E i \in 1..HashPrefixLen : d[i] < 32 \/ d[i] > 126
                     THEN BufferToString(SubSeq(d, HashPrefixLen + 1, Len(d)))
                     ELSE BufferToString(d)

\* C9: a value shorter than 3 bytes, or not starting with "v10", is returned as
\* the text of the whole value: nothing is decrypted, unpadded or stripped
C9_NonV10Unchanged ==
    (/\ phase = "returned"
     /\ ~(Len(input.encryptedValue) >= 3
          /\ SubSeq(input.encryptedValue, 1, 3) = <<118, 49, 48>>))
        => output = BufferToString(input.encryptedValue)

\* a value of more than 32 bytes that starts with "v11", ends like padding and
\* was returned whole
C9_Witness ==
    /\ phase = "returned"
    /\ Len(input.encryptedValue) = 19
    /\ SubSeq(input.encryptedValue, 1, 3) = <<118, 49, 49>>
    /\ output = BufferToString(input.encryptedValue)
    /\ Len(output) = 19

-----------------------------------------------------------------------------
(* extractSafariCookies: the binary cookie file *)

STR_cook == <<99, 111, 111, 107>>
STR_twitter == <<116, 119, 105, 116, 116, 101, 114>>
STR_x_com == <<120, 46, 99, 111, 109>>
STR_auth_token == <<97, 117, 116, 104, 95, 116, 111, 107, 101, 110>>
STR_ct0 == <<99, 116, 48>>

\* const domains = ['twitter', 'x.com']
domains == <<STR_twitter, STR_x_com>>

\* String.prototype.includes
Includes(s, sub) ==
    \E i \in 0..(Len(s) - Len(sub)) : SubSeq(s, i + 1, i + Len(sub)) = sub

\* the page header marker 0x00000100
PageHeaderMagic == 256

\* the positions, in a cookie record, of the offsets of its four strings
UrlOffsetPos == 16
NameOffsetPos == 20
PathOffsetPos == 24
ValueOffsetPos == 28

\* Buffer.readUInt32BE / readUInt32LE throw a RangeError unless the four bytes
\* at the 0-based offset lie inside the buffer
ReadInRange(data, off) == off >= 0 /\ off + 4 <= Len(data)

\* an unsigned 32-bit value from its bytes, most significant first.  Values
\* from 2^28 on exceed every length and offset of the buffers here and are all
\* read as 2^28, which keeps the sums of offsets inside the integers of TLC
UInt32(b3, b2, b1, b0) ==
    IF b3 >= 16 THEN 16 * 16777216
    ELSE b3 * 16777216 + b2 * 65536 + b1 * 256 + b0

\* readUInt32LE read as big-endian
ReadUInt32LE_AsBE(data, off) ==
    UInt32(data[off + 1], data[off + 2], data[off + 3], data[off + 4])

ReadUInt32BE(data, off) ==
    UInt32(data[off + 1], data[off + 2], data[off + 3], data[off + 4])

ReadUInt32LE(data, off) ==
    UInt32(data[off + 4], data[off + 3], data[off + 2], data[off + 1])

RECURSIVE StringEnd(_, _)
\* while (end < data.length && data[end] !== 0) end++
StringEnd(data, end) ==
    IF end < Len(data) /\ data[end + 1] # 0 THEN StringEnd(data, end + 1) ELSE end

\* readString(off) of the record that starts at cookieStart
ReadString(data, cookieStart, off) ==
    LET start == cookieStart + off
    IN  BufferToString(Slice(data, start, StringEnd(data, start)))

\* the body of the inner try: no cookie when a read throws (the catch skips it)
\* or when the domain does not match, else the one cookie
ParseCookie(data, cookieStart, domain) ==
    IF \E pos \in {UrlOffsetPos, NameOffsetPos, PathOffsetPos, ValueOffsetPos} :
           ~ReadInRange(data, cookieStart + pos)
    THEN <<>>
    ELSE LET cookieDomain ==
                 ReadString(data, cookieStart,
                            ReadUInt32LE(data, cookieStart + UrlOffsetPos))
             name == ReadString(data, cookieStart,
                                ReadUInt32LE(data, cookieStart + NameOffsetPos))
             path == ReadString(data, cookieStart,
                                ReadUInt32LE(data, cookieStart + PathOffsetPos))
             value == ReadString(data, cookieStart,
                                 ReadUInt32LE(data, cookieStart + ValueOffsetPos))
         IN  IF Includes(cookieDomain, domain)
             THEN << [name |-> name, value |-> value, domain |-> cookieDomain,
                      path |-> path, expires |-> 0] >>
             ELSE <<>>

RECURSIVE ParseCookies(_, _, _, _)
\* for (const cookieOffset of cookieOffsets)
ParseCookies(data, pageStart, cookieOffsets, domain) ==
    IF cookieOffsets = <<>> THEN <<>>
    ELSE ParseCookie(data, pageStart + Head(cookieOffsets), domain)
         \o ParseCookies(data, pageStart, Tail(cookieOffsets), domain)

\* n reads of 4 bytes from pos on, each 4 bytes after the one before: the
\* values read, or that a read threw (the last one is in range only if all are)
ReadUInt32s(data, pos, n, bigEndian) ==
    IF n > 0 /\ ~ReadInRange(data, pos + 4 * (n - 1))
    THEN [threw |-> TRUE, vals |-> <<>>]
    ELSE [threw |-> FALSE,
          vals |-> [i \in 1..n |->
                      IF bigEndian THEN ReadUInt32BE(data, pos + 4 * (i - 1))
                      ELSE ReadUInt32LE(data, pos + 4 * (i - 1))]]

RECURSIVE ParsePages_AbortOnBadHeader(_, _, _, _)
\* the page loop with a break in place of the continue of an unknown page
ParsePages_AbortOnBadHeader(data, offset, pageSizes, domain) ==
    IF pageSizes = <<>> THEN <<>>
    ELSE LET pageStart == offset
             pageEnd == offset + Head(pageSizes)
         IN  IF ~ReadInRange(data, offset) THEN <<>>
             ELSE IF ReadUInt32LE(data, offset) # PageHeaderMagic THEN <<>>
             ELSE IF ~ReadInRange(data, offset + 4) THEN <<>>
             ELSE LET numCookies == ReadUInt32LE(data, offset + 4)
                      cookieOffsets ==
                          ReadUInt32s(data, offset + 8, numCookies, FALSE)
                  IN  IF cookieOffsets.threw THEN <<>>
                      ELSE ParseCookies(data, pageStart, cookieOffsets.vals, domain)
                           \o ParsePages_AbortOnBadHeader(data, pageEnd,
                                                          Tail(pageSizes), domain)

RECURSIVE ParsePages(_, _, _, _)
\* for (const pageSize of pageSizes): the cookies pushed until the loop ends or
\* a read outside a cookie's own try throws
ParsePages(data, offset, pageSizes, domain) ==
    IF pageSizes = <<>> THEN <<>>
    ELSE LET pageStart == offset
             pageEnd == offset + Head(pageSizes)
         IN  IF ~ReadInRange(data, offset) THEN <<>>
             ELSE IF ReadUInt32LE(data, offset) # PageHeaderMagic
                  THEN ParsePages(data, pageEnd, Tail(pageSizes), domain)
             ELSE IF ~ReadInRange(data, offset + 4) THEN <<>>
             ELSE LET numCookies == ReadUInt32LE(data, offset + 4)
                      cookieOffsets ==
                          ReadUInt32s(data, offset + 8, numCookies, FALSE)
                  IN  IF cookieOffsets.threw THEN <<>>
                      ELSE ParseCookies(data, pageStart, cookieOffsets.vals, domain)
                           \o ParsePages(data, pageEnd, Tail(pageSizes), domain)

RECURSIVE PagesThrow(_, _, _)
\* whether the page loop throws: a read outside a cookie's own try (page
\* header, cookie count, cookie offsets) lies outside the data
PagesThrow(data, offset, pageSizes) ==
    IF pageSizes = <<>> THEN FALSE
    ELSE LET pageEnd == offset + Head(pageSizes)
         IN  IF ~ReadInRange(data, offset) THEN TRUE
             ELSE IF ReadUInt32LE(data, offset) # PageHeaderMagic
                  THEN PagesThrow(data, pageEnd, Tail(pageSizes))
             ELSE IF ~ReadInRange(data, offset + 4) THEN TRUE
             ELSE IF ReadUInt32s(data, offset + 8, ReadUInt32LE(data, offset + 4),
                                 FALSE).threw
                  THEN TRUE
             ELSE PagesThrow(data, pageEnd, Tail(pageSizes))

\* the cookie file: absent, unreadable, or its bytes
NoFile == [exists |-> FALSE, readable |-> FALSE, data |-> <<>>]
UnreadableFile == [exists |-> TRUE, readable |-> FALSE, data |-> <<>>]
FileOf(data) == [exists |-> TRUE, readable |-> TRUE, data |-> data]

\* ASCII lower case, as SQLite's LIKE folds it
LowerChar(c) == IF c >= 65 /\ c <= 90 THEN c + 32 ELSE c
Lower(str) == [i \in 1..Len(str) |-> LowerChar(str[i])]

\* the magic test accepting 'cook' in any letter case
HasCookMagic_AnyCase(data) == Lower(BufferToString(Slice(data, 0, 4))) = STR_cook

\* data.slice(0, 4).toString() === 'cook'
HasCookMagic(data) == BufferToString(Slice(data, 0, 4)) = STR_cook

\* extractSafariCookies(domain) on the file at BROWSER_DIRS.safari
extractSafariCookies(file, domain) ==
    IF ~file.exists THEN <<>>
    ELSE IF ~file.readable THEN <<>>
    ELSE LET data == file.data
         IN  IF ~HasCookMagic(data) THEN <<>>
             ELSE IF ~ReadInRange(data, 4) THEN <<>>
             ELSE LET numPages == ReadUInt32BE(data, 4)
                      pageSizes == ReadUInt32s(data, 8, numPages, TRUE)
                  IN  IF pageSizes.threw THEN <<>>
                      ELSE ParsePages(data, 8 + 4 * numPages, pageSizes.vals, domain)

\* whether something is thrown inside the outer try of extractSafariCookies:
\* by readFileSync, by the read of the page count or of a page size, or in the
\* page loop
SafariThrows(file) ==
    /\ file.exists
    /\ \/ ~file.readable
       \/ /\ HasCookMagic(file.data)
          /\ \/ ~ReadInRange(file.data, 4)
             \/ LET numPages == ReadUInt32BE(file.data, 4)
                    pageSizes == ReadUInt32s(file.data, 8, numPages, TRUE)
                IN  \/ pageSizes.threw
                    \/ PagesThrow(file.data, 8 + 4 * numPages, pageSizes.vals)

\* the outer try without its catch: what is thrown reaches the caller
Escapes_NoCatch(thrown) == thrown

\* catch { } of extractSafariCookies: nothing thrown inside the try reaches the
\* caller
Escapes(thrown) == FALSE

-----------------------------------------------------------------------------
(* Binary cookie files for extractSafariCookies *)

MaxPages == 2
MaxRecords == 2
NumSeeds == 5

LE32(n) == <<n % 256, (n \div 256) % 256, (n \div 65536) % 256,
             (n \div 16777216) % 256>>
BE32(n) == <<(n \div 16777216) % 256, (n \div 65536) % 256, (n \div 256) % 256,
             n % 256>>

STR_dot_x_com == <<46>> \o STR_x_com
STR_dot_twitter_com == <<46>> \o STR_twitter \o <<46, 99, 111, 109>>
STR_dot_example_org == <<46, 101, 120, 97, 109, 112, 108, 101, 46, 111, 114, 103>>
STR_slash == <<47>>
STR_sid == <<115, 105, 100>>
STR_abc123 == <<97, 98, 99, 49, 50, 51>>

CookieRec(d, n, p, v) == [domain |-> d, name |-> n, path |-> p, value |-> v]

\* the stored cookies the files are made of
RecordKind(k) ==
    CASE k = 0 -> CookieRec(STR_dot_x_com, STR_auth_token, STR_slash, STR_abc123)
      [] k = 1 -> CookieRec(STR_dot_x_com, STR_ct0, STR_slash, <<99, 48>>)
      [] k = 2 -> CookieRec(STR_dot_twitter_com, STR_auth_token, STR_slash,
                            <<116, 119, 49>>)
      [] k = 3 -> CookieRec(STR_dot_twitter_com, STR_ct0, STR_slash, <<116, 48>>)
      [] OTHER -> CookieRec(STR_dot_example_org, STR_sid, STR_slash, <<122, 122>>)

\* the fixed part of a cookie record: size, flags, the four string offsets at
\* bytes 16, 20, 24 and 28, the end marker and two dates
RecordHeaderLen == 56

CString(str) == BufferFromString(str) \o <<0>>

RecordBytes(rec) ==
    LET d == CString(rec.domain)
        n == CString(rec.name)
        p == CString(rec.path)
        v == CString(rec.value)
        size == RecordHeaderLen + Len(d) + Len(n) + Len(p) + Len(v)
    IN  LE32(size) \o LE32(0) \o LE32(0) \o LE32(0)
        \o LE32(RecordHeaderLen)
        \o LE32(RecordHeaderLen + Len(d))
        \o LE32(RecordHeaderLen + Len(d) + Len(n))
        \o LE32(RecordHeaderLen + Len(d) + Len(n) + Len(p))
        \o BufferAlloc(24, 0)
        \o d \o n \o p \o v

RECURSIVE ConcatAll(_)
ConcatAll(seqs) == IF seqs = <<>> THEN <<>> ELSE Head(seqs) \o ConcatAll(Tail(seqs))

RECURSIVE SumLen(_, _)
\* the total length of the first k sequences
SumLen(seqs, k) == IF k = 0 THEN 0 ELSE Len(seqs[k]) + SumLen(seqs, k - 1)

\* a page: header marker, cookie count, record offsets from the page start, a
\* 4-byte footer, the records
PageBytes(page) ==
    LET recs == [i \in 1..Len(page.records) |-> RecordBytes(page.records[i])]
        n == Len(recs)
        first == 8 + 4 * n + 4
    IN  LE32(page.header) \o LE32(n)
        \o ConcatAll([i \in 1..n |-> LE32(first + SumLen(recs, i - 1))])
        \o LE32(0)
        \o ConcatAll(recs)

\* the file: "cook", the page count and the page sizes (big-endian), the pages
FileBytes(pages) ==
    LET bodies == [i \in 1..Len(pages) |-> PageBytes(pages[i])]
    IN  STR_cook \o BE32(Len(pages))
        \o ConcatAll([i \in 1..Len(pages) |-> BE32(Len(bodies[i]))])
        \o ConcatAll(bodies)

\* the marker of a page the parser does not know: the bytes 00 00 01 00
OtherPageHeader == 65536

KindAt(seed, p, r) == (seed + 2 * (p - 1) + 3 * (r - 1)) % 5

\* np pages of nr records each; page badPage (if any) has another header
PagesOf(np, nr, seed, badPage) ==
    [p \in 1..np |->
        [header |-> IF p = badPage THEN OtherPageHeader ELSE PageHeaderMagic,
         records |-> [r \in 1..nr |-> RecordKind(KindAt(seed, p, r))]]]

\* the four bytes at the 0-based offset off replaced by word
Patch(data, off, word) ==
    [i \in 1..Len(data) |-> IF i - 1 \in off..(off + 3) THEN word[i - off] ELSE data[i]]

\* where the first page of a generated file starts, whether it lists a record,
\* and where that record starts
FirstPage(data) == 8 + 4 * ReadUInt32BE(data, 4)
HasFirstRecord(data) ==
    /\ ReadUInt32BE(data, 4) >= 1
    /\ ReadUInt32LE(data, FirstPage(data)) = PageHeaderMagic
    /\ ReadUInt32LE(data, FirstPage(data) + 4) >= 1
FirstRecord(data) == FirstPage(data) + ReadUInt32LE(data, FirstPage(data) + 8)

\* an offset, a size or a count far beyond the end of every generated file
FarBeyond == 256 * 65536

\* the bytes with the damage applied
Damaged(data, damage) ==
    CASE damage = "magic" -> <<67>> \o Tail(data)
      [] damage = "short" -> SubSeq(data, 1, 3)
      [] damage = "shifted" -> <<32>> \o data
      [] damage = "rec_offset" /\ HasFirstRecord(data) ->
            Patch(data, FirstPage(data) + 8, LE32(FarBeyond))
      [] damage = "str_offset" /\ HasFirstRecord(data) ->
            Patch(data, FirstRecord(data) + ValueOffsetPos, LE32(FarBeyond))
      [] damage = "no_term" /\ HasFirstRecord(data) ->
            SubSeq(data, 1, Len(data) - 1)
      [] damage = "pages_huge" -> Patch(data, 4, BE32(FarBeyond))
      [] damage = "size_huge" /\ ReadUInt32BE(data, 4) >= 1 ->
            Patch(data, 8, BE32(FarBeyond))
      [] damage = "count_huge" /\ ReadUInt32BE(data, 4) >= 1 ->
            Patch(data, FirstPage(data) + 4, LE32(FarBeyond))
      [] damage = "truncated" -> SubSeq(data, 1, Len(data) \div 2)
      [] OTHER -> data

\* damage to the file as a whole, and damage to one record or one count of a
\* file whose pages all carry the known header
FileDamages == {"none", "magic", "short", "shifted"}
FieldDamages ==
    {"rec_offset", "str_offset", "no_term", "pages_huge", "size_huge",
     "count_huge", "truncated"}

SafariInput(np, nr, seed, bad, dmg, dom) ==
    [pages |-> PagesOf(np, nr, seed, bad), damage |-> dmg, domain |-> dom,
     file |-> FileOf(Damaged(FileBytes(PagesOf(np, nr, seed, bad)), dmg))]

SafariInputs(maxPages, maxRecords, numSeeds) ==
    { SafariInput(np, nr, seed, bad, dmg, dom) :
        np \in 0..maxPages, nr \in 0..maxRecords, seed \in 0..(numSeeds - 1),
        bad \in 0..maxPages, dmg \in FileDamages, dom \in 1..2 }
    \cup
    { SafariInput(np, nr, seed, 0, dmg, dom) :
        np \in 0..maxPages, nr \in 0..maxRecords, seed \in 0..(numSeeds - 1),
        dmg \in FieldDamages, dom \in 1..2 }
    \cup
    { [pages |-> <<>>, damage |-> "none", domain |-> dom, file |-> f] :
        f \in {NoFile, UnreadableFile}, dom \in 1..2 }

InitSafari ==
    /\ input \in SafariInputs(MaxPages, MaxRecords, NumSeeds)
    /\ output = <<>>
    /\ phase = "ready"
    /\ NoHost

\* one call of extractSafariCookies(domain)
SafariCall ==
    /\ phase = "ready"
    /\ output' = extractSafariCookies(input.file, domains[input.domain])
    /\ phase' = IF Escapes(SafariThrows(input.file)) THEN "raised" ELSE "returned"
    /\ UNCHANGED input
    /\ UNCHANGED hostVars

NextSafari == SafariCall

SpecSafari == InitSafari /\ [][NextSafari]_vars

-----------------------------------------------------------------------------
(* Properties of extractSafariCookies *)

RECURSIVE AllRecords(_)
\* the records of the pages, in file order
AllRecords(pages) ==
    IF pages = <<>> THEN <<>> ELSE Head(pages).records \o AllRecords(Tail(pages))

WellFormedInput ==
    /\ input.file.exists /\ input.file.readable
    /\ input.damage = "none"
    /\ \A p \in 1..Len(input.pages) : input.pages[p].header = PageHeaderMagic

RECURSIVE HasSubstringAt(_, _, _)
\* sub occurs in s at or after position i
HasSubstringAt(s, sub, i) ==
    IF i + Len(sub) - 1 > Len(s) THEN FALSE
    ELSE IF \A j \in 1..Len(sub) : s[i + j - 1] = sub[j] THEN TRUE
    ELSE HasSubstringAt(s, sub, i + 1)

\* C10: for a well-formed file the result holds, in file order, exactly one
\* entry per record whose domain contains the target substring, with that
\* record's domain, name, path and value, and nothing else
C10_WellFormedFileParsed ==
    (phase = "returned" /\ WellFormedInput) =>
        LET recs == AllRecords(input.pages)
            hit(r) == HasSubstringAt(r.domain, domains[input.domain], 1)
            want == SelectSeq(recs, hit)
        IN  /\ Len(output) = Len(want)
            /\ \A i \in 1..Len(want) :
                   /\ output[i].domain = want[i].domain
                   /\ output[i].name = want[i].name
                   /\ output[i].path = want[i].path
                   /\ output[i].value = want[i].value

\* a file of two pages of two records, of which some match and some do not
C10_Witness ==
    /\ phase = "returned" /\ WellFormedInput
    /\ Len(input.pages) = 2
    /\ Len(AllRecords(input.pages)) = 4
    /\ Len(output) = 2
    /\ output[1].domain = STR_dot_x_com /\ output[1].name = STR_auth_token
    /\ output[1].path = STR_slash /\ output[1].value = STR_abc123

\* the records of the pages that carry the known header, in file order
RECURSIVE ValidPageRecords(_)
ValidPageRecords(pages) ==
    IF pages = <<>> THEN <<>>
    ELSE (IF Head(pages).header = PageHeaderMagic THEN Head(pages).records
          ELSE <<>>)
         \o ValidPageRecords(Tail(pages))

\* C11: in a file that is otherwise well formed, a page whose header is not
\* 0x00000100 contributes no record and does not end the parsing: the result
\* is, in file order, the matching records of the pages with the known
\* header, those after the unknown page included.
C11_UnknownPageSkipped ==
    (phase = "returned" /\ input.file.exists /\ input.file.readable
       /\ input.damage = "none") =>
        LET hit(r) == HasSubstringAt(r.domain, domains[input.domain], 1)
            want == SelectSeq(ValidPageRecords(input.pages), hit)
        IN  /\ Len(output) = Len(want)
            /\ \A i \in 1..Len(want) :
                   /\ output[i].domain = want[i].domain
                   /\ output[i].name = want[i].name
                   /\ output[i].value = want[i].value

\* C11 witness: the first of two pages has an unknown header and holds a
\* matching record, and the matching records of the second page were returned
C11_Witness ==
    /\ phase = "returned" /\ input.damage = "none"
    /\ Len(input.pages) = 2
    /\ input.pages[1].header # PageHeaderMagic
    /\ \E r \in 1..Len(input.pages[1].records) :
          HasSubstringAt(input.pages[1].records[r].domain, domains[input.domain], 1)
    /\ Len(output) > 0

\* C12: a file whose first 4 bytes are not "cook" yields no cookie, whatever
\* follows them.
C12_NoMagicNoCookies ==
    (phase = "returned" /\ input.file.exists /\ input.file.readable
       /\ SubSeq(input.file.data, 1, Min(4, Len(input.file.data))) # STR_cook) =>
        output = <<>>

\* C12 witness: a file that differs from a well-formed file with matching
\* records only in the letter case of its first byte
C12_Witness ==
    /\ phase = "returned"
    /\ input.damage = "magic"
    /\ \E i \in 1..Len(AllRecords(input.pages)) :
          HasSubstringAt(AllRecords(input.pages)[i].domain, domains[input.domain], 1)
    /\ \A p \in 1..Len(input.pages) : input.pages[p].header = PageHeaderMagic
    /\ output = <<>>


\* the matching records a list of records gives, as the result lists them
Matching(recs, domain) ==
    SelectSeq(recs, LAMBDA r : HasSubstringAt(r.domain, domain, 1))

\* a sequence without its element at index k
Without(seq, k) == SubSeq(seq, 1, k - 1) \o SubSeq(seq, k + 1, Len(seq))

\* the record the damage of the input makes malformed: the first of the file
\* (its offset, or the offset of its value) or the last (no terminator)
MalformedIndex ==
    IF input.damage = "no_term" THEN Len(AllRecords(input.pages)) ELSE 1

\* C21: a record whose offset or whose value offset points outside the data, or
\* whose last string has no terminator, adds no entry to the result, and every
\* other record of the file is returned as in the undamaged file.
C21_MalformedRecordSkipped ==
    ( /\ phase = "returned"
      /\ input.damage \in {"rec_offset", "str_offset", "no_term"}
      /\ AllRecords(input.pages) # <<>> ) =>
        LET want == Matching(Without(AllRecords(input.pages), MalformedIndex),
                             domains[input.domain])
        IN  /\ Len(output) = Len(want)
            /\ \A i \in 1..Len(want) :
                   /\ output[i].domain = want[i].domain
                   /\ output[i].name = want[i].name
                   /\ output[i].path = want[i].path
                   /\ output[i].value = want[i].value

\* a string of the result is a string of the data: the bytes from some
\* position of the data up to the next zero byte or the end of the data
StringOfData(str, data) ==
    \E start \in 0..Len(data) :
        str = BufferToString(Slice(data, start, StringEnd(data, start)))

\* C22: on every file, also one whose page count, page size, cookie count or
\* offsets point beyond the data or that is cut short, the call returns and
\* does not raise; its result has at most one entry per four bytes of data and
\* every string in it lies inside the data.
C22_TerminatesInsideData ==
    phase # "ready" =>
        /\ phase = "returned"
        /\ Len(output) * 4 <= Len(input.file.data)
        /\ \A i \in 1..Len(output) :
              /\ StringOfData(output[i].domain, input.file.data)
              /\ StringOfData(output[i].name, input.file.data)
              /\ StringOfData(output[i].path, input.file.data)
              /\ StringOfData(output[i].value, input.file.data)

\* C22 witness: a file whose first page announces far more cookies than the
\* data holds was read to the end of the call, which returned the records of
\* no page
C22_Witness ==
    /\ phase = "returned"
    /\ input.damage = "count_huge"
    /\ Len(AllRecords(input.pages)) >= 2
    /\ SafariThrows(input.file)
    /\ output = <<>>

-----------------------------------------------------------------------------
(* The host: browser directories, cookie stores, the keychain *)

STR_Default == <<68, 101, 102, 97, 117, 108, 116>>
STR_Profile_ == <<80, 114, 111, 102, 105, 108, 101, 32>>
STR_Profile_1 == STR_Profile_ \o <<49>>
STR_Profile_2 == STR_Profile_ \o <<50>>
STR_Local_State == <<76, 111, 99, 97, 108, 32, 83, 116, 97, 116, 101>>
STR_dot_default == <<46, 100, 101, 102, 97, 117, 108, 116>>
STR_default_release ==
    <<100, 101, 102, 97, 117, 108, 116, 45, 114, 101, 108, 101, 97, 115, 101>>
STR_ab_default_release == <<97, 98, 46>> \o STR_default_release
STR_cd_default == <<99, 100>> \o STR_dot_default
STR_Crash_Reports == <<67, 114, 97, 115, 104, 32, 82, 101, 112, 111, 114, 116, 115>>
STR_DOT_TWITTER_COM == <<46, 84, 87, 73, 84, 84, 69, 82, 46, 67, 79, 77>>

\* the display names of browserChecks, in its order
VendorNames == <<"Chrome", "Arc", "Brave", "Edge", "Chromium">>
NumVendors == 5

\* String.prototype.startsWith
StartsWith(str, prefix) ==
    Len(str) >= Len(prefix) /\ SubSeq(str, 1, Len(prefix)) = prefix

\* host LIKE '%domain%' for a domain without % or _: LIKE ignores ASCII case
Like(host, domain) == Includes(Lower(host), Lower(domain))

\* a browser's root directory: whether it exists, whether readdirSync can list
\* it, its entries in listing order and, per entry, the cookie store in it
\* ("none": no Cookies file)
AbsentDir == [exists |-> FALSE, listable |-> FALSE, entries |-> <<>>, stores |-> <<>>]
UnlistableDir == [exists |-> TRUE, listable |-> FALSE, entries |-> <<>>, stores |-> <<>>]
Dir(entries, stores) ==
    [exists |-> TRUE, listable |-> TRUE, entries |-> entries, stores |-> stores]

\* three profiles whose probing fails in three ways (failed copy, malformed
\* row, undecryptable row)
FailingProfiles ==
    Dir(<<STR_Default, STR_Profile_1, STR_Profile_2>>,
        <<"no_copy", "null_blob", "bad_row">>)

\* the listings an installed Chromium-family browser may have
ChromiumDirMenu ==
    { Dir(<<STR_Default>>, <<"both_tw">>),
      Dir(<<STR_Default, STR_Profile_1>>, <<"corrupt", "auth_only">>),
      Dir(<<STR_Profile_1, STR_Local_State, STR_Default, STR_Profile_2>>,
          <<"both_x", "none", "auth_only", "none">>),
      FailingProfiles,
      UnlistableDir }

\* every store a single profile may hold
StoreKinds ==
    { "both_tw", "both_x", "auth_only", "split", "tw_and_x", "bad_row", "null_blob",
      "no_copy", "corrupt", "upper", "ct0_empty", "legacy", "hashed" }

\* the Firefox profiles directory
FirefoxDirMenu ==
    { Dir(<<STR_Crash_Reports>>, <<"none">>),
      Dir(<<STR_ab_default_release>>, <<"both_tw">>),
      Dir(<<STR_cd_default>>, <<"auth_only">>),
      Dir(<<STR_Crash_Reports, STR_cd_default, STR_ab_default_release>>,
          <<"none", "none", "both_x">>) }

\* the Firefox and Safari states the aggregator is run on
AggFirefoxDirs ==
    { Dir(<<STR_cd_default>>, <<"auth_only">>),
      Dir(<<STR_Crash_Reports, STR_ab_default_release>>, <<"none", "both_x">>) }
AggSafariFiles == { "both_x", "auth_only" }

FirefoxStoreKinds ==
    { "both_tw", "both_x", "auth_only", "split", "no_copy", "corrupt", "upper",
      "empty_first" }

\* the Safari cookie file: none, one yielding both cookies for 'x.com', one
\* holding auth_token alone, one whose page has the other header
SafariFileMenu == { "both_x", "auth_only", "other_header" }

SafariPages(kind) ==
    CASE kind = "both_x" ->
            << [header |-> PageHeaderMagic,
                records |-> <<RecordKind(4), RecordKind(0), RecordKind(1)>>] >>
      [] kind = "auth_only" ->
            << [header |-> PageHeaderMagic, records |-> <<RecordKind(2)>>] >>
      [] OTHER ->
            << [header |-> OtherPageHeader,
                records |-> <<RecordKind(0), RecordKind(1)>>] >>

SafariFile(kind) == IF kind = "none" THEN NoFile ELSE FileOf(FileBytes(SafariPages(kind)))

\* the generic-password items: each browser keeps its own secret under its own
\* service; access to an item may be refused
ServiceOf(v) ==
    CASE v = 1 -> "Chrome Safe Storage"
      [] v = 2 -> "Arc Safe Storage"
      [] v = 3 -> "Brave Safe Storage"
      [] v = 4 -> "Microsoft Edge Safe Storage"
      [] OTHER -> "Chromium Safe Storage"

Services == { ServiceOf(v) : v \in 1..NumVendors }

\* the keychain: "granted", "denied" (the lookup of Chrome's item exits non-zero),
\* "empty" (Chrome's item holds an empty secret) or "rotated" (Chrome's item
\* holds another secret than before)
KeychainItem(keychain, service) ==
    IF service = "Chrome Safe Storage"
    THEN [exitCode |-> IF keychain = "denied" THEN 44 ELSE 0,
          secret |-> IF keychain = "empty" THEN <<>>
                     ELSE IF keychain = "rotated" THEN <<112, 51>>
                     ELSE <<112, 49>>]
    ELSE [exitCode |-> 0, secret |-> <<112, 50>>]

\* Bun.spawnSync(['security', 'find-generic-password', '-s', service, '-w'])
SecurityFindGenericPassword(keychain, service) ==
    LET item == KeychainItem(keychain, service)
    IN  IF item.exitCode # 0 THEN [exitCode |-> item.exitCode, stdout |-> <<>>]
        ELSE [exitCode |-> 0, stdout |-> item.secret \o <<10>>]

IsSpace(c) == c \in {9, 10, 11, 12, 13, 32, 160}

RECURSIVE TrimStart(_)
TrimStart(str) ==
    IF str # <<>> /\ IsSpace(Head(str)) THEN TrimStart(Tail(str)) ELSE str

RECURSIVE TrimEnd(_)
TrimEnd(str) ==
    IF str # <<>> /\ IsSpace(str[Len(str)])
    THEN TrimEnd(SubSeq(str, 1, Len(str) - 1)) ELSE str

\* String.prototype.trim
Trim(str) == TrimEnd(TrimStart(str))

RECURSIVE SumOf(_)
SumOf(str) == IF str = <<>> THEN 0 ELSE Head(str) + SumOf(Tail(str))

\* a key of half the length
pbkdf2Sync_HalfLength(password) == SubSeq(TestKey(SumOf(password)), 1, 8)

\* pbkdf2Sync(password, 'saltysalt', 1003, 16, 'sha1'): a 16-byte key that the
\* password alone determines
pbkdf2Sync(password) == TestKey(SumOf(password))

\* the key a browser encrypts its own store with
StoreKey(keychain, v) == pbkdf2Sync(KeychainItem(keychain, ServiceOf(v)).secret)

\* getChromeEncryptionKey from the result of the lookup on: exit code, trimmed
\* password, key derivation
KeyFromLookup(result) ==
    LET password == Trim(BufferToString(result.stdout))
    IN  IF result.exitCode # 0 THEN [status |-> "null", key |-> <<>>]
        ELSE IF password = <<>> THEN [status |-> "null", key |-> <<>>]
        ELSE [status |-> "key", key |-> pbkdf2Sync(password)]

\* getChromeEncryptionKey without its try/catch around a failed lookup
getChromeEncryptionKey_NoCatch(keychain) ==
    LET result == SecurityFindGenericPassword(keychain, "Chrome Safe Storage")
        password == Trim(BufferToString(result.stdout))
    IN  IF result.exitCode # 0 THEN [status |-> "throw", key |-> <<>>]
        ELSE IF password = <<>> THEN [status |-> "null", key |-> <<>>]
        ELSE [status |-> "key", key |-> pbkdf2Sync(password)]

\* getChromeEncryptionKey(): status "key" with the key, or "null"
getChromeEncryptionKey(keychain) ==
    KeyFromLookup(SecurityFindGenericPassword(keychain, "Chrome Safe Storage"))

-----------------------------------------------------------------------------
(* Key derivation over the outputs of the keychain lookup *)

MaxStdoutLen == 3

\* what `security` may print: 'p', '1' and line feeds
StdoutChars == {112, 49, 10}
Stdouts == UNION { [1..n -> StdoutChars] : n \in 0..MaxStdoutLen }

\* two lookups, the first of which may exit non-zero
KeyInputs ==
    [first : [exitCode : {0, 44}, stdout : Stdouts],
     second : [exitCode : {0}, stdout : Stdouts]]

InitKey ==
    /\ input \in KeyInputs
    /\ output = <<>>
    /\ phase = "ready"
    /\ NoHost

\* one call of getChromeEncryptionKey on the next lookup result
KeyCall ==
    /\ phase = "ready"
    /\ output' = Append(output, KeyFromLookup(IF output = <<>> THEN input.first
                                               ELSE input.second))
    /\ phase' = IF Len(output) = 1 THEN "returned" ELSE "ready"
    /\ UNCHANGED <<input, hostVars>>

NextKey == KeyCall

SpecKey == InitKey /\ [][NextKey]_vars

-----------------------------------------------------------------------------
(* Cookie stores *)

VAL_at == <<97, 116>>
VAL_ct == <<99, 116>>
VAL_ax == <<97, 120>>
VAL_cx == <<99, 120>>
STR_guest == <<103, 117, 101, 115, 116>>

\* a row of the cookies table; isNull: encrypted_value is NULL
Row(name, host, blob) ==
    [name |-> name, host_key |-> host, encrypted_value |-> blob, isNull |-> FALSE]
NullRow(name, host) ==
    [name |-> name, host_key |-> host, encrypted_value |-> <<>>, isNull |-> TRUE]

\* a row as the browser writes it: the value encrypted under the browser's key
EncRow(key, name, host, value) ==
    Row(name, host, ChromeEncrypt(key, BufferFromString(value)))

\* the rows of a Chromium store of the given kind, written under key
ChromiumRows(kind, key) ==
    CASE kind = "both_tw" ->
            << EncRow(key, STR_sid, STR_dot_example_org, <<122, 122>>),
               EncRow(key, STR_auth_token, STR_dot_twitter_com, VAL_at),
               EncRow(key, STR_ct0, STR_dot_twitter_com, VAL_ct) >>
      [] kind \in {"both_x", "no_copy"} ->
            << EncRow(key, STR_auth_token, STR_dot_x_com, VAL_ax),
               EncRow(key, STR_ct0, STR_dot_x_com, VAL_cx) >>
      [] kind = "auth_only" ->
            << EncRow(key, STR_auth_token, STR_dot_x_com, VAL_ax) >>
      [] kind = "split" ->
            << EncRow(key, STR_auth_token, STR_dot_twitter_com, VAL_at),
               EncRow(key, STR_ct0, STR_dot_x_com, VAL_cx) >>
      [] kind = "tw_and_x" ->
            << EncRow(key, STR_auth_token, STR_dot_twitter_com, VAL_at),
               EncRow(key, STR_ct0, STR_dot_twitter_com, VAL_ct),
               EncRow(key, STR_auth_token, STR_dot_x_com, VAL_ax),
               EncRow(key, STR_ct0, STR_dot_x_com, VAL_cx) >>
      [] kind = "bad_row" ->
            << EncRow(key, STR_auth_token, STR_dot_x_com, VAL_ax),
               Row(STR_guest, STR_dot_x_com, STR_v10 \o BufferAlloc(5, 9)),
               EncRow(key, STR_ct0, STR_dot_x_com, VAL_cx) >>
      [] kind = "null_blob" ->
            << EncRow(key, STR_auth_token, STR_dot_x_com, VAL_ax),
               NullRow(STR_guest, STR_dot_x_com),
               EncRow(key, STR_ct0, STR_dot_x_com, VAL_cx) >>
      [] kind = "upper" ->
            << EncRow(key, STR_auth_token, STR_DOT_TWITTER_COM, VAL_at),
               EncRow(key, STR_ct0, STR_DOT_TWITTER_COM, VAL_ct) >>
      [] kind = "ct0_empty" ->
            << EncRow(key, STR_auth_token, STR_dot_x_com, VAL_ax),
               EncRow(key, STR_ct0, STR_dot_x_com, <<>>) >>
      [] kind = "legacy" ->
            << Row(STR_auth_token, STR_dot_x_com, BufferFromString(VAL_ax)),
               Row(STR_ct0, STR_dot_x_com, BufferFromString(VAL_cx)) >>
      [] kind = "hashed" ->
            << Row(STR_auth_token, STR_dot_x_com,
                   ChromeEncrypt(key, PrefixOf(1) \o BufferFromString(VAL_ax))),
               Row(STR_ct0, STR_dot_x_com,
                   ChromeEncrypt(key, PrefixOf(1) \o BufferFromString(VAL_cx))) >>
      [] OTHER -> <<>>

\* a row of moz_cookies
FirefoxRow(name, host, value) == [name |-> name, host |-> host, value |-> value]

FirefoxRows(kind) ==
    CASE kind = "both_tw" ->
            << FirefoxRow(STR_auth_token, STR_dot_twitter_com, VAL_at),
               FirefoxRow(STR_ct0, STR_dot_twitter_com, VAL_ct) >>
      [] kind \in {"both_x", "no_copy"} ->
            << FirefoxRow(STR_sid, STR_dot_example_org, <<122, 122>>),
               FirefoxRow(STR_auth_token, STR_dot_x_com, VAL_ax),
               FirefoxRow(STR_ct0, STR_dot_x_com, VAL_cx) >>
      [] kind = "auth_only" ->
            << FirefoxRow(STR_auth_token, STR_dot_x_com, VAL_ax) >>
      [] kind = "split" ->
            << FirefoxRow(STR_auth_token, STR_dot_twitter_com, VAL_at),
               FirefoxRow(STR_ct0, STR_dot_x_com, VAL_cx) >>
      [] kind = "upper" ->
            << FirefoxRow(STR_auth_token, STR_DOT_TWITTER_COM, VAL_at),
               FirefoxRow(STR_ct0, STR_DOT_TWITTER_COM, VAL_ct) >>
      [] kind = "empty_first" ->
            << FirefoxRow(STR_auth_token, STR_dot_x_com, <<>>),
               FirefoxRow(STR_auth_token, STR_dot_x_com, VAL_ax),
               FirefoxRow(STR_ct0, STR_dot_x_com, VAL_cx) >>
      [] OTHER -> <<>>

\* copyFileSync cannot read a "no_copy" store; a "corrupt" one is no database
Copyable(kind) == kind \notin {"none", "no_copy"}
ValidDatabase(kind) == kind \notin {"none", "corrupt"}

-----------------------------------------------------------------------------
(* The locator *)

\* existsSync of the cookie file in entry i of a browser directory
StoreExists(dir, i) ==
    dir.exists /\ i \in 1..Len(dir.stores) /\ dir.stores[i] # "none"

RECURSIVE ProfileEntries(_, _)
\* for (const entry of entries): the numbered profiles that hold a cookie file
ProfileEntries(dir, i) ==
    IF i > Len(dir.entries) THEN <<>>
    ELSE (IF StartsWith(dir.entries[i], STR_Profile_) /\ StoreExists(dir, i)
          THEN <<i>> ELSE <<>>)
         \o ProfileEntries(dir, i + 1)

\* findChromiumCookiePaths returning the cookie files in the order of the
\* listing, Default among the numbered profiles
findChromiumCookiePaths_ListingOrder(dir) ==
    IF ~dir.exists THEN <<>>
    ELSE IF ~dir.listable THEN <<>>
    ELSE SelectSeq([i \in 1..Len(dir.entries) |-> i],
                   LAMBDA i : /\ dir.entries[i] = STR_Default
                                   \/ StartsWith(dir.entries[i], STR_Profile_)
                              /\ StoreExists(dir, i))

\* findChromiumCookiePaths(baseDir): the entries whose cookie file is returned,
\* Default first
findChromiumCookiePaths(dir) ==
    IF ~dir.exists THEN <<>>
    ELSE IF ~dir.listable THEN <<>>
    ELSE LET defaults == { i \in 1..Len(dir.entries) : dir.entries[i] = STR_Default }
         IN  (IF defaults # {} /\ StoreExists(dir, CHOOSE i \in defaults : TRUE)
              THEN <<CHOOSE i \in defaults : TRUE>> ELSE <<>>)
             \o ProfileEntries(dir, 1)

\* Array.prototype.find over the profile directory names: the first index whose
\* name includes '.default' or 'default-release', 0 when there is none
RECURSIVE FindProfileFrom(_, _)
FindProfileFrom(entries, i) ==
    IF i > Len(entries) THEN 0
    ELSE IF Includes(entries[i], STR_dot_default)
            \/ Includes(entries[i], STR_default_release)
         THEN i
    ELSE FindProfileFrom(entries, i + 1)

\* findFirefoxProfile(): the index of the profile directory, 0 for null
findFirefoxProfile(dir) ==
    IF ~dir.exists THEN 0
    ELSE IF ~dir.listable THEN 0
    ELSE FindProfileFrom(dir.entries, 1)

-----------------------------------------------------------------------------
(* Reading a copied store *)

Cookie(name, value, domain) ==
    [name |-> name, value |-> value, domain |-> domain, path |-> STR_slash,
     expires |-> 0]

\* a file under /tmp: absent, or the copy of a store of some kind written by
\* browser v (0: Firefox)
NoTmpFile == [present |-> FALSE, kind |-> "none", v |-> 0]
TmpFile(kind, v) == [present |-> TRUE, kind |-> kind, v |-> v]

\* safeCopyFile(src, dest) for a source store of the given kind: whether
\* copyFileSync succeeded
safeCopyFile(kind) == Copyable(kind)

\* unlinkSync(tempPath) inside its try/catch, keeping the file
Unlink_Keep(files, path) == files

\* unlinkSync(tempPath) inside its try/catch
Unlink(files, path) == [files EXCEPT ![path] = NoTmpFile]

\* whether the decipher threw inside decryptChromeCookie, whose catch returns ''
DecryptFails(encryptedValue, key) ==
    HasV10Prefix(encryptedValue) /\ DecipherThrows(key, SliceFrom(encryptedValue, 3))

\* why a row was not pushed: its decryption failed, or its value is empty
Skipped(row, key) ==
    IF DecryptFails(row.encrypted_value, key) THEN "decrypt" ELSE ""

\* the loop over the rows that stops at the first undecryptable row
RECURSIVE DecryptRows_StopAtBadRow(_, _)
DecryptRows_StopAtBadRow(rows, key) ==
    IF rows = <<>> THEN [cookies |-> <<>>, failure |-> ""]
    ELSE LET row == Head(rows)
         IN  IF row.isNull THEN [cookies |-> <<>>, failure |-> "row"]
             ELSE LET decryptedValue == decryptChromeCookie(row.encrypted_value, key)
                  IN  IF decryptedValue = <<>>
                      THEN [cookies |-> <<>>, failure |-> Skipped(row, key)]
                      ELSE LET rest == DecryptRows_StopAtBadRow(Tail(rows), key)
                           IN  [cookies |-> <<Cookie(row.name, decryptedValue,
                                                     row.host_key)>> \o rest.cookies,
                                failure |-> rest.failure]

\* for (const row of rows): a NULL encrypted_value makes Buffer.from throw, which
\* ends the loop with the cookies pushed so far; a row that decrypts to '' is
\* skipped.  failure: "" (none), "decrypt" (a row was skipped), "row" (thrown)
RECURSIVE DecryptRows(_, _)
DecryptRows(rows, key) ==
    IF rows = <<>> THEN [cookies |-> <<>>, failure |-> ""]
    ELSE LET row == Head(rows)
         IN  IF row.isNull THEN [cookies |-> <<>>, failure |-> "row"]
             ELSE LET decryptedValue == decryptChromeCookie(row.encrypted_value, key)
                      rest == DecryptRows(Tail(rows), key)
                  IN  IF decryptedValue = <<>>
                      THEN [cookies |-> rest.cookies,
                            failure |-> IF rest.failure = "" THEN Skipped(row, key)
                                        ELSE rest.failure]
                      ELSE [cookies |-> <<Cookie(row.name, decryptedValue,
                                                 row.host_key)>> \o rest.cookies,
                            failure |-> rest.failure]

\* the try block of extractChromiumCookies on the file at tempPath: opening a
\* missing file or querying something that is no database throws
ChromiumQuery(keychain, file, domain, key) ==
    IF ~file.present \/ ~ValidDatabase(file.kind) \/ file.v = 0
    THEN [cookies |-> <<>>, failure |-> "database"]
    ELSE DecryptRows(SelectSeq(ChromiumRows(file.kind, StoreKey(keychain, file.v)),
                               LAMBDA row : Like(row.host_key, domain)),
                     key)

RECURSIVE PushRows(_)
\* for (const row of rows) cookies.push(...)
PushRows(rows) ==
    IF rows = <<>> THEN <<>>
    ELSE <<Cookie(Head(rows).name, Head(rows).value, Head(rows).host)>>
         \o PushRows(Tail(rows))

\* the try block of extractFirefoxCookies on the file at tempPath
FirefoxQuery(file, domain) ==
    IF ~file.present \/ ~ValidDatabase(file.kind) \/ file.v # 0
    THEN [cookies |-> <<>>, failure |-> "database"]
    ELSE [cookies |-> PushRows(SelectSeq(FirefoxRows(file.kind),
                                         LAMBDA row : Like(row.host, domain))),
          failure |-> ""]

-----------------------------------------------------------------------------
(* The aggregator's pure parts *)

\* cookies.find(c => c.name === name)?.value
RECURSIVE FindValue(_, _)
FindValue(cookies, name) ==
    IF cookies = <<>> THEN [defined |-> FALSE, value |-> <<>>]
    ELSE IF Head(cookies).name = name
         THEN [defined |-> TRUE, value |-> Head(cookies).value]
    ELSE FindValue(Tail(cookies), name)

\* truthiness of a string | undefined
Truthy(x) == x.defined /\ x.value # <<>>

\* the test with || in place of &&
YieldsBoth_Either(authToken, ct0) == Truthy(authToken) \/ Truthy(ct0)

\* if (authToken && ct0)
YieldsBoth(authToken, ct0) == Truthy(authToken) /\ Truthy(ct0)

\* one call the aggregator makes: which extractor, the display name, and for
\* a Chromium browser its directory and the entry holding the cookie file
Cand(kind, name, v, entry, domain) ==
    [kind |-> kind, name |-> name, v |-> v, entry |-> entry, domain |-> domain]

\* the loop over the domains run from the last one to the first
DomainCands_XFirst(kind, name, v, entry) ==
    [d \in 1..Len(domains) |-> Cand(kind, name, v, entry, Len(domains) + 1 - d)]

\* for (const domain of domains)
DomainCands(kind, name, v, entry) ==
    [d \in 1..Len(domains) |-> Cand(kind, name, v, entry, d)]

\* for (const cookiePath of browser.paths)
RECURSIVE PathCands(_, _, _)
PathCands(name, v, paths) ==
    IF paths = <<>> THEN <<>>
    ELSE DomainCands("chromium", name, v, Head(paths))
         \o PathCands(name, v, Tail(paths))

\* browserChecks with Arc listed before Chrome
browserChecks_ArcFirst(w) ==
    << [name |-> "Arc", v |-> 2, paths |-> findChromiumCookiePaths(w.chromium[2])],
       [name |-> "Chrome", v |-> 1, paths |-> findChromiumCookiePaths(w.chromium[1])],
       [name |-> "Brave", v |-> 3, paths |-> findChromiumCookiePaths(w.chromium[3])],
       [name |-> "Edge", v |-> 4, paths |-> findChromiumCookiePaths(w.chromium[4])],
       [name |-> "Chromium", v |-> 5,
        paths |-> findChromiumCookiePaths(w.chromium[5])] >>

\* const browserChecks
browserChecks(w) ==
    << [name |-> "Chrome", v |-> 1, paths |-> findChromiumCookiePaths(w.chromium[1])],
       [name |-> "Arc", v |-> 2, paths |-> findChromiumCookiePaths(w.chromium[2])],
       [name |-> "Brave", v |-> 3, paths |-> findChromiumCookiePaths(w.chromium[3])],
       [name |-> "Edge", v |-> 4, paths |-> findChromiumCookiePaths(w.chromium[4])],
       [name |-> "Chromium", v |-> 5,
        paths |-> findChromiumCookiePaths(w.chromium[5])] >>

\* for (const browser of browserChecks)
RECURSIVE ChromiumCands(_)
ChromiumCands(checks) ==
    IF checks = <<>> THEN <<>>
    ELSE PathCands(Head(checks).name, Head(checks).v, Head(checks).paths)
         \o ChromiumCands(Tail(checks))

\* the extractor calls of extractTwitterCookies in the order of its loops
Candidates(w) ==
    ChromiumCands(browserChecks(w))
    \o DomainCands("firefox", "Firefox", 0, 0)
    \o DomainCands("safari", "Safari", 0, 0)

\* chromiumBrowsers naming Chrome otherwise than browserChecks does
chromiumBrowsers_OtherNames ==
    << [name |-> "Google Chrome", dir |-> 1], [name |-> "Arc", dir |-> 2],
       [name |-> "Brave", dir |-> 3], [name |-> "Edge", dir |-> 4],
       [name |-> "Chromium", dir |-> 5] >>

\* const chromiumBrowsers of listAvailableBrowsers: display name and the index
\* of the directory in BROWSER_DIRS
chromiumBrowsers ==
    << [name |-> "Chrome", dir |-> 1], [name |-> "Arc", dir |-> 2],
       [name |-> "Brave", dir |-> 3], [name |-> "Edge", dir |-> 4],
       [name |-> "Chromium", dir |-> 5] >>

\* a list that keeps what an earlier call pushed
NewList_Kept(previous) == previous

\* const browsers: string[] = [], whatever an earlier call pushed
NewList(previous) == <<>>

\* for (const browser of chromiumBrowsers): push the name when
\* findChromiumCookiePaths finds a path
RECURSIVE PushChromium(_, _, _)
PushChromium(w, list, browsers) ==
    IF list = <<>> THEN browsers
    ELSE PushChromium(w, Tail(list),
             IF Len(findChromiumCookiePaths(w.chromium[Head(list).dir])) > 0
             THEN Append(browsers, Head(list).name) ELSE browsers)

\* firefoxProfile && existsSync(`${firefoxProfile}/cookies.sqlite`)
PushFirefox(w, browsers) ==
    LET firefoxProfile == findFirefoxProfile(w.firefox)
    IN  IF firefoxProfile # 0 /\ StoreExists(w.firefox, firefoxProfile)
        THEN Append(browsers, "Firefox") ELSE browsers

\* existsSync(BROWSER_DIRS.safari)
PushSafari(w, browsers) ==
    IF w.safari # "none" THEN Append(browsers, "Safari") ELSE browsers

\* listAvailableBrowsers()
listAvailableBrowsers(w) ==
    PushSafari(w, PushFirefox(w, PushChromium(w, chromiumBrowsers, NewList(<<>>))))

\* what a call returns
NoResult ==
    [status |-> "none", cookies |-> <<>>, auth_token |-> <<>>, ct0 |-> <<>>,
     source |-> "", browsers |-> <<>>]
NullResult == [NoResult EXCEPT !.status = "null"]
Found(authToken, ct0, source) ==
    [status |-> "found", cookies |-> <<>>, auth_token |-> authToken, ct0 |-> ct0,
     source |-> source, browsers |-> <<>>]
ListResult(cookies) == [NoResult EXCEPT !.status = "list", !.cookies = cookies]
NamesResult(browsers) == [NoResult EXCEPT !.status = "names", !.browsers = browsers]

-----------------------------------------------------------------------------
(* The calls as processes over the host *)

MaxInstalled == 2
MaxClock == 1
NumListCalls == 2

Keychains == {"granted", "denied", "empty"}

\* a copy written next to the store it is a copy of
ChromiumTempPath_BesideStore(now) == <<"Cookies", 0>>

\* /tmp/trench_cookies_${Date.now()}.db and /tmp/trench_ff_cookies_${Date.now()}.db
ChromiumTempPath(now) == <<"trench_cookies_", now>>
FirefoxTempPath(now) == <<"trench_ff_cookies_", now>>
TempPaths == {"trench_cookies_", "trench_ff_cookies_"} \X (0..MaxClock)

\* dbPath of a Chromium profile and of the Firefox profile, as places a file
\* could be written to
StorePaths == {<<"Cookies", 0>>, <<"cookies.sqlite", 0>>}

\* every path a write or a delete may name
FilePaths == TempPaths \cup StorePaths

\* the browser directories of a host on which the browsers in DOMAIN f are
\* installed
ChromiumDirs(f) == [v \in 1..NumVendors |-> IF v \in DOMAIN f THEN f[v] ELSE AbsentDir]

\* the directory of a browser whose Default profile holds one store
OneStore(kind) == Dir(<<STR_Default>>, <<kind>>)

ChromiumAssignments ==
    UNION { [I -> ChromiumDirMenu] :
              I \in { J \in SUBSET (1..NumVendors) : Cardinality(J) <= MaxInstalled } }

\* the hosts the aggregator runs on: at most MaxInstalled browsers installed
AggWorlds ==
    { w \in [chromium : { ChromiumDirs(f) : f \in ChromiumAssignments },
             firefox : {AbsentDir} \cup AggFirefoxDirs,
             safari : {"none"} \cup AggSafariFiles,
             keychain : {"granted", "denied"}] :
        Cardinality({ v \in 1..NumVendors : w.chromium[v].exists })
          + (IF w.firefox.exists THEN 1 ELSE 0)
          + (IF w.safari # "none" THEN 1 ELSE 0) <= MaxInstalled }

\* the hosts extractChromiumCookies is called on by itself
ChromiumWorlds ==
    { [chromium |-> ChromiumDirs([u \in {v} |-> OneStore(kind)]),
       firefox |-> AbsentDir, safari |-> "none", keychain |-> k] :
        v \in 1..2, kind \in StoreKinds \cup {"none"}, k \in Keychains }

\* the hosts extractFirefoxCookies is called on by itself
FirefoxWorlds ==
    { [chromium |-> ChromiumDirs(<<>>), firefox |-> d, safari |-> "none",
       keychain |-> "granted"] :
        d \in {AbsentDir, UnlistableDir} \cup FirefoxDirMenu
              \cup { Dir(<<STR_ab_default_release>>, <<kind>>) :
                       kind \in FirefoxStoreKinds } }

\* the hosts two processes run the aggregator on at the same time: one browser
\* installed, signed in to the site
ConcWorlds ==
    { [chromium |-> ChromiumDirs(f), firefox |-> d, safari |-> s, keychain |-> "granted"] :
        <<f, d, s>> \in
          { << <<OneStore("both_tw")>>, AbsentDir, "none" >>,
            << <<Dir(<<STR_Profile_1, STR_Default>>, <<"both_x", "auth_only">>)>>,
               AbsentDir, "none" >>,
            << <<>>, Dir(<<STR_ab_default_release>>, <<"both_x">>), "none" >>,
            << <<>>, AbsentDir, "both_x" >> } }

\* the local variables of a call
Locals(task, cands, cur) ==
    [task |-> task, cands |-> cands, ci |-> 0, cur |-> cur, entry |-> cur.entry,
     key |-> <<>>, tempPath |-> <<"", 0>>, cookies |-> <<>>, failure |-> "",
     browsers |-> <<>>, returned |-> <<>>]

NoCand == Cand("none", "", 0, 0, 1)
NoLocals == Locals("none", <<>>, NoCand)

\* where an extractor starts
EntryPc(cand) ==
    CASE cand.kind = "chromium" -> "c_exists"
      [] cand.kind = "firefox" -> "f_find"
      [] OTHER -> "s_read"

Idle(w) ==
    /\ world = w
    /\ clock = 0
    /\ tmp = [path \in FilePaths |-> NoTmpFile]
    /\ retval = [p \in Procs |-> NoResult]
    /\ log = [p \in Procs |-> <<>>]
    /\ sys = [p \in Procs |-> {}]
    /\ NoPure

\* one process about to call extractTwitterCookies()
\* hosts whose Chrome profile holds cookies of both domains: a complete pair for
\* each, or auth_token for one and ct0 for the other
PairWorlds ==
    { [chromium |-> ChromiumDirs(<<d>>), firefox |-> f, safari |-> "none",
       keychain |-> "granted"] :
        d \in { OneStore("tw_and_x"), OneStore("split"),
                Dir(<<STR_Default, STR_Profile_1>>, <<"split", "tw_and_x">>),
                Dir(<<STR_Default, STR_Profile_1>>, <<"both_x", "both_tw">>) },
        f \in { AbsentDir, Dir(<<STR_ab_default_release>>, <<"split">>) } }

InitAgg ==
    \E w \in AggWorlds \cup PairWorlds :
        /\ Idle(w)
        /\ pc = [p \in Procs |-> IF p = 1 THEN "start" ELSE "off"]
        /\ loc = [p \in Procs |->
                    IF p = 1 THEN Locals("extractTwitterCookies", <<>>, NoCand)
                    ELSE NoLocals]

\* one process about to call extractChromiumCookies(dbPath, domain)
InitChromium ==
    \E w \in ChromiumWorlds, d \in 1..Len(domains) :
        LET v == CHOOSE u \in 1..NumVendors : w.chromium[u].exists
            cand == Cand("chromium", VendorNames[v], v, 1, d)
        IN  /\ Idle(w)
            /\ pc = [p \in Procs |-> IF p = 1 THEN EntryPc(cand) ELSE "off"]
            /\ loc = [p \in Procs |->
                        IF p = 1 THEN Locals("extractChromiumCookies", <<>>, cand)
                        ELSE NoLocals]

\* one process about to call extractFirefoxCookies(domain)
InitFirefox ==
    \E w \in FirefoxWorlds, d \in 1..Len(domains) :
        LET cand == Cand("firefox", "Firefox", 0, 0, d)
        IN  /\ Idle(w)
            /\ pc = [p \in Procs |-> IF p = 1 THEN EntryPc(cand) ELSE "off"]
            /\ loc = [p \in Procs |->
                        IF p = 1 THEN Locals("extractFirefoxCookies", <<>>, cand)
                        ELSE NoLocals]

\* one process about to call listAvailableBrowsers()
\* the hosts listAvailableBrowsers is called on: those of the single extractors,
\* and hosts with two browsers, with a directory that cannot be listed, with
\* Safari's file
ListWorlds ==
    ChromiumWorlds \cup FirefoxWorlds \cup ConcWorlds \cup
    { [chromium |-> ChromiumDirs(f), firefox |-> d, safari |-> s, keychain |-> "denied"] :
        f \in { <<UnlistableDir>>, <<AbsentDir, OneStore("both_x"), AbsentDir, UnlistableDir>>,
                <<OneStore("both_tw"), AbsentDir, OneStore("corrupt")>>,
                <<Dir(<<STR_Local_State>>, <<"none">>)>> },
        d \in {AbsentDir} \cup AggFirefoxDirs,
        s \in {"none", "both_x"} }

InitList ==
    \E w \in ListWorlds :
        /\ Idle(w)
        /\ pc = [p \in Procs |-> IF p = 1 THEN "l_chromium" ELSE "off"]
        /\ loc = [p \in Procs |->
                    IF p = 1 THEN Locals("listAvailableBrowsers", <<>>, NoCand)
                    ELSE NoLocals]

Init == InitAgg \/ InitChromium \/ InitFirefox \/ InitList

\* two processes about to call extractTwitterCookies() on the same host
InitConc ==
    \E w \in ConcWorlds :
        /\ Idle(w)
        /\ pc = [p \in Procs |-> "start"]
        /\ loc = [p \in Procs |-> Locals("extractTwitterCookies", <<>>, NoCand)]

\* the process makes these calls in the step
Uses(p, calls) == sys' = [sys EXCEPT ![p] = @ \cup calls]

\* an extractor returns cookies to its caller
Returns(p, cookies, failure) ==
    /\ loc' = [loc EXCEPT ![p].cookies = cookies, ![p].failure = failure]
    /\ pc' = [pc EXCEPT ![p] = "returned"]
    /\ log' = [log EXCEPT ![p] = Append(@, [ci |-> loc[p].ci, failure |-> failure,
                                            cookies |-> cookies])]

\* extractTwitterCookies: builds browserChecks and enters its loops
AggStart(p) ==
    /\ pc[p] = "start"
    /\ LET cands == Candidates(world)
       IN  /\ loc' = [loc EXCEPT ![p] = [Locals(@.task, cands, cands[1])
                                           EXCEPT !.ci = 1]]
           /\ pc' = [pc EXCEPT ![p] = EntryPc(cands[1])]
    /\ UNCHANGED <<world, clock, tmp, retval, log, pureVars>>
    /\ Uses(p, {"existsSync", "readdirSync"})

\* extractChromiumCookies reading the keychain before it looks for the file
ChromiumExists_KeyFirst(p) ==
    /\ pc[p] = "c_exists"
    /\ IF StoreExists(world.chromium[loc[p].cur.v], loc[p].cur.entry)
       THEN /\ pc' = [pc EXCEPT ![p] = "c_key"]
            /\ UNCHANGED <<loc, log>>
       ELSE Returns(p, <<>>, "missing")
    /\ UNCHANGED <<world, clock, tmp, retval, pureVars>>
    /\ Uses(p, {"Bun.spawnSync security", "existsSync"})

\* extractChromiumCookies: if (!existsSync(dbPath)) return []
ChromiumExists(p) ==
    /\ pc[p] = "c_exists"
    /\ IF StoreExists(world.chromium[loc[p].cur.v], loc[p].cur.entry)
       THEN /\ pc' = [pc EXCEPT ![p] = "c_key"]
            /\ UNCHANGED <<loc, log>>
       ELSE Returns(p, <<>>, "missing")
    /\ UNCHANGED <<world, clock, tmp, retval, pureVars>>
    /\ Uses(p, {"existsSync"})

\* extractChromiumCookies using the key an earlier invocation derived, when
\* there is one, in place of a lookup of its own
ChromiumKey_Reused(p) ==
    /\ pc[p] = "c_key"
    /\ LET kept == { q \in Procs : q # p /\ pc[q] = "done" /\ loc[q].key # <<>> }
           got == IF kept # {}
                  THEN [status |-> "key", key |-> loc[CHOOSE q \in kept : TRUE].key]
                  ELSE getChromeEncryptionKey(world.keychain)
       IN  /\ CASE got.status = "key" ->
                    /\ loc' = [loc EXCEPT ![p].key = got.key]
                    /\ pc' = [pc EXCEPT ![p] = "c_copy"]
                    /\ UNCHANGED log
               [] got.status = "null" -> Returns(p, <<>>, "keychain")
               [] OTHER ->
                    /\ pc' = [pc EXCEPT ![p] = "raised"]
                    /\ UNCHANGED <<loc, log>>
           /\ Uses(p, IF kept # {} THEN {}
                      ELSE {"Bun.spawnSync security"}
                           \cup (IF got.status = "key" THEN {"pbkdf2Sync"} ELSE {}))
    /\ UNCHANGED <<world, clock, tmp, retval, pureVars>>

\* extractChromiumCookies: const key = getChromeEncryptionKey(); if (!key) return []
ChromiumKey(p) ==
    /\ pc[p] = "c_key"
    /\ LET got == getChromeEncryptionKey(world.keychain)
       IN  CASE got.status = "key" ->
                  /\ loc' = [loc EXCEPT ![p].key = got.key]
                  /\ pc' = [pc EXCEPT ![p] = "c_copy"]
                  /\ UNCHANGED log
             [] got.status = "null" -> Returns(p, <<>>, "keychain")
             [] OTHER ->
                  /\ pc' = [pc EXCEPT ![p] = "raised"]
                  /\ UNCHANGED <<loc, log>>
    /\ UNCHANGED <<world, clock, tmp, retval, pureVars>>
    /\ Uses(p, {"Bun.spawnSync security"}
                \cup (IF getChromeEncryptionKey(world.keychain).status = "key"
                      THEN {"pbkdf2Sync"} ELSE {}))

\* extractChromiumCookies: tempPath from Date.now(); if (!safeCopyFile(...)) return []
ChromiumCopy(p) ==
    /\ pc[p] = "c_copy"
    /\ LET tempPath == ChromiumTempPath(clock)
           v == loc[p].cur.v
           kind == world.chromium[v].stores[loc[p].cur.entry]
       IN  IF safeCopyFile(kind)
           THEN /\ tmp' = [tmp EXCEPT ![tempPath] = TmpFile(kind, v)]
                /\ loc' = [loc EXCEPT ![p].tempPath = tempPath]
                /\ pc' = [pc EXCEPT ![p] = "c_read"]
                /\ UNCHANGED log
           ELSE /\ Returns(p, <<>>, "copy")
                /\ UNCHANGED tmp
    /\ UNCHANGED <<world, clock, retval, pureVars>>
    /\ Uses(p, {"Date.now", "copyFileSync"})

\* extractChromiumCookies: the try block, from new Database to db.close()
ChromiumRead(p) ==
    /\ pc[p] = "c_read"
    /\ LET read == ChromiumQuery(world.keychain, tmp[loc[p].tempPath],
                                 domains[loc[p].cur.domain], loc[p].key)
       IN  loc' = [loc EXCEPT ![p].cookies = read.cookies,
                              ![p].failure = read.failure]
    /\ pc' = [pc EXCEPT ![p] = "c_unlink"]
    /\ UNCHANGED <<world, clock, tmp, retval, log, pureVars>>
    /\ Uses(p, {"new Database"}
                \cup (IF loc'[p].cookies # <<>> \/ loc'[p].failure = "decrypt"
                      THEN {"createDecipheriv"} ELSE {}))

\* extractChromiumCookies: the finally block, then return cookies
ChromiumUnlink(p) ==
    /\ pc[p] = "c_unlink"
    /\ tmp' = Unlink(tmp, loc[p].tempPath)
    /\ Returns(p, loc[p].cookies, loc[p].failure)
    /\ UNCHANGED <<world, clock, retval, pureVars>>
    /\ Uses(p, {"unlinkSync"})

\* extractFirefoxCookies: findFirefoxProfile() and existsSync(dbPath)
FirefoxFind(p) ==
    /\ pc[p] = "f_find"
    /\ LET profile == findFirefoxProfile(world.firefox)
       IN  IF profile = 0 THEN Returns(p, <<>>, "profile")
           ELSE IF ~StoreExists(world.firefox, profile)
                THEN Returns(p, <<>>, "missing")
           ELSE /\ loc' = [loc EXCEPT ![p].entry = profile]
                /\ pc' = [pc EXCEPT ![p] = "f_copy"]
                /\ UNCHANGED log
    /\ UNCHANGED <<world, clock, tmp, retval, pureVars>>
    /\ Uses(p, {"existsSync", "readdirSync"})

\* extractFirefoxCookies: tempPath from Date.now(); if (!safeCopyFile(...)) return []
FirefoxCopy(p) ==
    /\ pc[p] = "f_copy"
    /\ LET tempPath == FirefoxTempPath(clock)
           kind == world.firefox.stores[loc[p].entry]
       IN  IF safeCopyFile(kind)
           THEN /\ tmp' = [tmp EXCEPT ![tempPath] = TmpFile(kind, 0)]
                /\ loc' = [loc EXCEPT ![p].tempPath = tempPath]
                /\ pc' = [pc EXCEPT ![p] = "f_read"]
                /\ UNCHANGED log
           ELSE /\ Returns(p, <<>>, "copy")
                /\ UNCHANGED tmp
    /\ UNCHANGED <<world, clock, retval, pureVars>>
    /\ Uses(p, {"Date.now", "copyFileSync"})

\* extractFirefoxCookies: the try block
FirefoxRead(p) ==
    /\ pc[p] = "f_read"
    /\ LET read == FirefoxQuery(tmp[loc[p].tempPath], domains[loc[p].cur.domain])
       IN  loc' = [loc EXCEPT ![p].cookies = read.cookies,
                              ![p].failure = read.failure]
    /\ pc' = [pc EXCEPT ![p] = "f_unlink"]
    /\ UNCHANGED <<world, clock, tmp, retval, log, pureVars>>
    /\ Uses(p, {"new Database"})

\* extractFirefoxCookies: the finally block, then return cookies
FirefoxUnlink(p) ==
    /\ pc[p] = "f_unlink"
    /\ tmp' = Unlink(tmp, loc[p].tempPath)
    /\ Returns(p, loc[p].cookies, loc[p].failure)
    /\ UNCHANGED <<world, clock, retval, pureVars>>
    /\ Uses(p, {"unlinkSync"})

\* extractSafariCookies(domain), which touches no shared file
SafariRead(p) ==
    /\ pc[p] = "s_read"
    /\ Returns(p, extractSafariCookies(SafariFile(world.safari),
                                       domains[loc[p].cur.domain]),
               IF world.safari = "none" THEN "missing" ELSE "")
    /\ UNCHANGED <<world, clock, tmp, retval, pureVars>>
    /\ Uses(p, {"existsSync"} \cup (IF world.safari # "none" THEN {"readFileSync"} ELSE {}))

\* extractTwitterCookies keeping the first pair it finds and going on through
\* the remaining calls before it returns
AggCheck_RunsToEnd(p) ==
    /\ pc[p] = "returned"
    /\ loc[p].task = "extractTwitterCookies"
    /\ LET authToken == FindValue(loc[p].cookies, STR_auth_token)
           ct0 == FindValue(loc[p].cookies, STR_ct0)
           next == loc[p].ci + 1
           kept == IF retval[p].status # "found" /\ YieldsBoth(authToken, ct0)
                   THEN Found(authToken.value, ct0.value, loc[p].cur.name)
                   ELSE retval[p]
       IN  IF next <= Len(loc[p].cands)
           THEN /\ loc' = [loc EXCEPT ![p] = [Locals(@.task, @.cands, @.cands[next])
                                               EXCEPT !.ci = next]]
                /\ pc' = [pc EXCEPT ![p] = EntryPc(loc[p].cands[next])]
                /\ retval' = [retval EXCEPT ![p] = kept]
           ELSE /\ retval' = [retval EXCEPT
                                ![p] = IF kept.status = "found" THEN kept
                                       ELSE NullResult]
                /\ pc' = [pc EXCEPT ![p] = "done"]
                /\ UNCHANGED loc
    /\ UNCHANGED <<world, clock, tmp, log, pureVars>>
    /\ Uses(p, {})

\* extractTwitterCookies: the body of its innermost loops after the extractor
\* returned, and the step to the next iteration or to return null
AggCheck(p) ==
    /\ pc[p] = "returned"
    /\ loc[p].task = "extractTwitterCookies"
    /\ LET authToken == FindValue(loc[p].cookies, STR_auth_token)
           ct0 == FindValue(loc[p].cookies, STR_ct0)
           next == loc[p].ci + 1
       IN  IF YieldsBoth(authToken, ct0)
           THEN /\ retval' = [retval EXCEPT
                                ![p] = Found(authToken.value, ct0.value,
                                             loc[p].cur.name)]
                /\ pc' = [pc EXCEPT ![p] = "done"]
                /\ UNCHANGED loc
           ELSE IF next <= Len(loc[p].cands)
           THEN /\ loc' = [loc EXCEPT ![p] = [Locals(@.task, @.cands, @.cands[next])
                                               EXCEPT !.ci = next]]
                /\ pc' = [pc EXCEPT ![p] = EntryPc(loc[p].cands[next])]
                /\ UNCHANGED retval
           ELSE /\ retval' = [retval EXCEPT ![p] = NullResult]
                /\ pc' = [pc EXCEPT ![p] = "done"]
                /\ UNCHANGED loc
    /\ UNCHANGED <<world, clock, tmp, log, pureVars>>
    /\ Uses(p, {})

\* an extractor called by itself hands its cookies to the caller
DirectReturn(p) ==
    /\ pc[p] = "returned"
    /\ loc[p].task # "extractTwitterCookies"
    /\ retval' = [retval EXCEPT ![p] = ListResult(loc[p].cookies)]
    /\ pc' = [pc EXCEPT ![p] = "done"]
    /\ UNCHANGED <<world, clock, tmp, loc, log, pureVars>>
    /\ Uses(p, {})

\* listAvailableBrowsers: the new list and the loop over chromiumBrowsers
ListChromium(p) ==
    /\ pc[p] = "l_chromium"
    /\ loc' = [loc EXCEPT ![p].browsers =
                  PushChromium(world, chromiumBrowsers, NewList(@))]
    /\ pc' = [pc EXCEPT ![p] = "l_firefox"]
    /\ UNCHANGED <<world, clock, tmp, retval, log, pureVars>>
    /\ Uses(p, {"existsSync", "readdirSync"})

\* listAvailableBrowsers probing Firefox by copying its store
ListFirefox_ByCopy(p) ==
    /\ pc[p] = "l_firefox"
    /\ LET profile == findFirefoxProfile(world.firefox)
           found == /\ profile # 0
                    /\ StoreExists(world.firefox, profile)
                    /\ safeCopyFile(world.firefox.stores[profile])
       IN  /\ loc' = [loc EXCEPT ![p].browsers =
                         IF found THEN Append(@, "Firefox") ELSE @]
           /\ tmp' = IF found
                     THEN [tmp EXCEPT ![FirefoxTempPath(clock)] =
                             TmpFile(world.firefox.stores[profile], 0)]
                     ELSE tmp
    /\ pc' = [pc EXCEPT ![p] = "l_safari"]
    /\ UNCHANGED <<world, clock, retval, log, pureVars>>
    /\ Uses(p, {"existsSync", "readdirSync", "copyFileSync"})

\* listAvailableBrowsers: the Firefox check
ListFirefox(p) ==
    /\ pc[p] = "l_firefox"
    /\ loc' = [loc EXCEPT ![p].browsers = PushFirefox(world, @)]
    /\ pc' = [pc EXCEPT ![p] = "l_safari"]
    /\ UNCHANGED <<world, clock, tmp, retval, log, pureVars>>
    /\ Uses(p, {"existsSync", "readdirSync"})

\* listAvailableBrowsers: the Safari check
ListSafari(p) ==
    /\ pc[p] = "l_safari"
    /\ loc' = [loc EXCEPT ![p].browsers = PushSafari(world, @)]
    /\ pc' = [pc EXCEPT ![p] = "l_return"]
    /\ UNCHANGED <<world, clock, tmp, retval, log, pureVars>>
    /\ Uses(p, {"existsSync"})

\* listAvailableBrowsers: return browsers; the caller then calls it again, up
\* to NumListCalls times
ListReturn(p) ==
    /\ pc[p] = "l_return"
    /\ retval' = [retval EXCEPT ![p] = NamesResult(loc[p].browsers)]
    /\ loc' = [loc EXCEPT ![p].returned = Append(@, loc[p].browsers)]
    /\ pc' = [pc EXCEPT ![p] = IF Len(loc[p].returned) + 1 < NumListCalls
                                THEN "l_chromium" ELSE "done"]
    /\ UNCHANGED <<world, clock, tmp, log, pureVars>>
    /\ Uses(p, {})

\* a step of listAvailableBrowsers
ListStep(p) == ListChromium(p) \/ ListFirefox(p) \/ ListSafari(p) \/ ListReturn(p)

\* a millisecond passes
Tick ==
    /\ clock < MaxClock
    /\ clock' = clock + 1
    /\ UNCHANGED <<world, tmp, pc, loc, retval, log, sys, pureVars>>

\* a step of extractTwitterCookies and the extractors it calls
AggStep(p) ==
    \/ AggStart(p)
    \/ ChromiumExists(p) \/ ChromiumKey(p) \/ ChromiumCopy(p)
    \/ ChromiumRead(p) \/ ChromiumUnlink(p)
    \/ FirefoxFind(p) \/ FirefoxCopy(p) \/ FirefoxRead(p) \/ FirefoxUnlink(p)
    \/ SafariRead(p)
    \/ AggCheck(p)

Next == AggStep(1) \/ DirectReturn(1) \/ ListStep(1)

Spec == Init /\ [][Next]_vars

NextConc == Tick \/ \E p \in Procs : AggStep(p)

SpecConc == InitConc /\ [][NextConc]_vars

\* the states of the keychain between two invocations
RotatedKeychains == Keychains \cup {"rotated"}

\* process 1 about to call extractChromiumCookies(dbPath, domain); process 2
\* makes the same call once the first has returned
InitRotate ==
    \E w \in ChromiumWorlds, d \in 1..Len(domains) :
        LET v == CHOOSE u \in 1..NumVendors : w.chromium[u].exists
            cand == Cand("chromium", VendorNames[v], v, 1, d)
        IN  /\ Idle(w)
            /\ pc = [p \in Procs |-> IF p = 1 THEN EntryPc(cand) ELSE "off"]
            /\ loc = [p \in Procs |->
                        IF p = 1 THEN Locals("extractChromiumCookies", <<>>, cand)
                        ELSE NoLocals]

\* between the two invocations the secret of Chrome's keychain item changes, and
\* with it the key the store is written under; then the second one starts
Rotate ==
    /\ pc[1] = "returned"
    /\ pc[2] = "off"
    /\ \E k \in RotatedKeychains \ {world.keychain} :
           world' = [world EXCEPT !.keychain = k]
    /\ pc' = [pc EXCEPT ![1] = "done", ![2] = EntryPc(loc[1].cur)]
    /\ loc' = [loc EXCEPT ![2] = Locals(loc[1].task, <<>>, loc[1].cur)]
    /\ UNCHANGED <<clock, tmp, retval, log, sys, pureVars>>

NextRotate ==
    \/ Rotate
    \/ \E p \in Procs :
          \/ ChromiumExists(p) \/ ChromiumKey(p) \/ ChromiumCopy(p)
          \/ ChromiumRead(p) \/ ChromiumUnlink(p)

SpecRotate == InitRotate /\ [][NextRotate]_vars

-----------------------------------------------------------------------------
(* The calls run alone, as functions of the host *)

\* extractChromiumCookies(dbPath, domain) with nothing else touching /tmp
extractChromiumCookies(w, v, entry, domain) ==
    IF ~StoreExists(w.chromium[v], entry) THEN <<>>
    ELSE LET key == getChromeEncryptionKey(w.keychain)
             kind == w.chromium[v].stores[entry]
         IN  IF key.status # "key" THEN <<>>
             ELSE IF ~safeCopyFile(kind) THEN <<>>
             ELSE ChromiumQuery(w.keychain, TmpFile(kind, v), domains[domain],
                                key.key).cookies

\* extractFirefoxCookies(domain) with nothing else touching /tmp
extractFirefoxCookies(w, domain) ==
    LET profile == findFirefoxProfile(w.firefox)
    IN  IF profile = 0 THEN <<>>
        ELSE IF ~StoreExists(w.firefox, profile) THEN <<>>
        ELSE IF ~safeCopyFile(w.firefox.stores[profile]) THEN <<>>
        ELSE FirefoxQuery(TmpFile(w.firefox.stores[profile], 0),
                          domains[domain]).cookies

\* the extractor call of one iteration
CallExtractor(w, cand) ==
    CASE cand.kind = "chromium" ->
            extractChromiumCookies(w, cand.v, cand.entry, cand.domain)
      [] cand.kind = "firefox" -> extractFirefoxCookies(w, cand.domain)
      [] OTHER -> extractSafariCookies(SafariFile(w.safari), domains[cand.domain])

\* whether a list of cookies passes the test of the loop body
Yields(cookies) ==
    YieldsBoth(FindValue(cookies, STR_auth_token), FindValue(cookies, STR_ct0))

\* the first iteration from i on whose cookies pass the test, 0 when none does
RECURSIVE FirstYield(_, _, _)
FirstYield(w, cands, i) ==
    IF i > Len(cands) THEN 0
    ELSE IF Yields(CallExtractor(w, cands[i])) THEN i
    ELSE FirstYield(w, cands, i + 1)

\* extractTwitterCookies() with nothing else touching /tmp
extractTwitterCookies(w) ==
    LET cands == Candidates(w)
        k == FirstYield(w, cands, 1)
    IN  IF k = 0 THEN NullResult
        ELSE LET cookies == CallExtractor(w, cands[k])
             IN  Found(FindValue(cookies, STR_auth_token).value,
                       FindValue(cookies, STR_ct0).value, cands[k].name)

-----------------------------------------------------------------------------
(* Properties of extractTwitterCookies and of the extractors *)

Last(seq) == seq[Len(seq)]

\* the process is in extractTwitterCookies and has returned from it
AggDone(p) == pc[p] = "done" /\ loc[p].task = "extractTwitterCookies"

\* a list of cookies holds a non-empty first value for exactly one of the names
Partial(cookies) ==
    LET a == FindValue(cookies, STR_auth_token)
        c == FindValue(cookies, STR_ct0)
    IN  (a.defined /\ a.value # <<>>) # (c.defined /\ c.value # <<>>)

\* the rows of the store behind an iteration of the aggregator, as
\* <<name, host>> pairs
StoreNames(w, cand) ==
    CASE cand.kind = "chromium" ->
            LET rows == ChromiumRows(w.chromium[cand.v].stores[cand.entry],
                                     StoreKey(w.keychain, cand.v))
            IN  { <<rows[i].name, rows[i].host_key>> : i \in 1..Len(rows) }
      [] cand.kind = "firefox" ->
            LET rows == FirefoxRows(w.firefox.stores[findFirefoxProfile(w.firefox)])
            IN  { <<rows[i].name, rows[i].host>> : i \in 1..Len(rows) }
      [] OTHER ->
            LET recs == AllRecords(SafariPages(w.safari))
            IN  { <<recs[i].name, recs[i].domain>> : i \in 1..Len(recs) }

\* C1: every result extractTwitterCookies returns carries a non-empty
\* auth_token and a non-empty ct0, both taken from the cookies of one extractor
\* call, that is of one domain of one browser profile, whose store holds both
\* names under a host matching that domain; a call whose cookies hold only one
\* of the two never ends the extraction, which goes on with the next candidate.
C1_BothFromOneProfile ==
    \A p \in Procs :
        /\ AggDone(p) /\ retval[p].status = "found" =>
              LET cand == loc[p].cur
                  cookies == Last(log[p]).cookies
              IN  /\ retval[p].auth_token # <<>>
                  /\ retval[p].ct0 # <<>>
                  /\ Last(log[p]).ci = loc[p].ci
                  /\ \E i, j \in 1..Len(cookies) :
                        /\ cookies[i].name = STR_auth_token
                        /\ cookies[i].value = retval[p].auth_token
                        /\ cookies[j].name = STR_ct0
                        /\ cookies[j].value = retval[p].ct0
                        /\ <<STR_auth_token, cookies[i].domain>> \in StoreNames(world, cand)
                        /\ <<STR_ct0, cookies[j].domain>> \in StoreNames(world, cand)
                  /\ \A i \in 1..Len(cookies) :
                        Like(cookies[i].domain, domains[cand.domain])
        /\ AggDone(p) =>
              \A k \in 1..Len(log[p]) :
                  Partial(log[p][k].cookies) =>
                      \/ k < Len(log[p]) /\ log[p][k + 1].ci = log[p][k].ci + 1
                      \/ k = Len(loc[p].cands) /\ retval[p] = NullResult

\* C1 witness: a result was returned after an earlier profile held one cookie only
C1_Witness ==
    /\ AggDone(1)
    /\ retval[1].status = "found"
    /\ \E k \in 1..Len(log[1]) : Partial(log[1][k].cookies)

\* the place of a display name in the order of the sources
Rank(name) ==
    CASE name = "Chrome" -> 1
      [] name = "Arc" -> 2
      [] name = "Brave" -> 3
      [] name = "Edge" -> 4
      [] name = "Chromium" -> 5
      [] name = "Firefox" -> 6
      [] name = "Safari" -> 7
      [] OTHER -> 0

\* entry i of a browser directory is a detected profile: Default or Profile *,
\* with a cookie file
Detected(dir, i) ==
    /\ dir.exists /\ dir.listable
    /\ i \in 1..Len(dir.entries)
    /\ dir.entries[i] = STR_Default \/ StartsWith(dir.entries[i], STR_Profile_)
    /\ StoreExists(dir, i)

\* C2: the calls extractTwitterCookies makes go through Chrome, Arc, Brave,
\* Edge, Chromium (each detected profile of a vendor, both domains, before the
\* next vendor), then Firefox, then Safari; it returns at the first call that
\* yields both cookies, with that call's values and the display name of that
\* browser, having passed over every earlier call; it returns null only after
\* all of them.
C2_FirstYieldingInOrder ==
    \A p \in Procs :
        AggDone(p) =>
            LET cands == loc[p].cands
                n == Len(log[p])
            IN  /\ \A k \in 1..(Len(cands) - 1) :
                      Rank(cands[k].name) <= Rank(cands[k + 1].name)
                /\ \A k \in 1..Len(cands) :
                      /\ Rank(cands[k].name) \in 1..7
                      /\ cands[k].kind = "chromium" =>
                            /\ cands[k].name = VendorNames[cands[k].v]
                            /\ Detected(world.chromium[cands[k].v], cands[k].entry)
                /\ \A v \in 1..NumVendors, d \in 1..Len(domains) :
                      \A i \in 1..Len(world.chromium[v].entries) :
                          Detected(world.chromium[v], i) =>
                              \E k \in 1..Len(cands) :
                                  cands[k] = Cand("chromium", VendorNames[v], v, i, d)
                /\ \A d \in 1..Len(domains) :
                      \E k, m \in 1..Len(cands) :
                          /\ cands[k] = Cand("firefox", "Firefox", 0, 0, d)
                          /\ cands[m] = Cand("safari", "Safari", 0, 0, d)
                /\ \A k \in 1..n : log[p][k].ci = k
                /\ \A k \in 1..n :
                      log[p][k].cookies = CallExtractor(world, cands[k])
                /\ \A k \in 1..(n - 1) : ~Yields(log[p][k].cookies)
                /\ IF Yields(log[p][n].cookies)
                   THEN retval[p] =
                          Found(FindValue(log[p][n].cookies, STR_auth_token).value,
                                FindValue(log[p][n].cookies, STR_ct0).value,
                                cands[n].name)
                   ELSE n = Len(cands) /\ retval[p] = NullResult

\* C2 witness: Firefox's result was returned after a Chromium-family browser
\* with a cookie store had been passed over
C2_Witness ==
    /\ AggDone(1)
    /\ retval[1].source = "Firefox"
    /\ Len(log[1]) > 2
    /\ loc[1].cands[1].kind = "chromium"

\* C3: extractTwitterCookies never raises, and when no call of its scan yields
\* both cookies (also when no browser is installed) it returns null.
C3_NotFoundIsNull ==
    \A p \in Procs :
        /\ pc[p] # "raised"
        /\ AggDone(p) /\ FirstYield(world, Candidates(world), 1) = 0 =>
              retval[p] = NullResult

\* C3 witness: null was returned on a host whose Chrome store could not be read
\* because the keychain refused the key
C3_Witness ==
    /\ AggDone(1)
    /\ retval[1] = NullResult
    /\ world.keychain = "denied"
    /\ \E k \in 1..Len(log[1]) : log[1][k].failure = "keychain"

\* the failures that concern a whole profile
ProfileFailures == {"missing", "keychain", "copy", "database", "profile"}

SelectedRows(w, cand) ==
    SelectSeq(ChromiumRows(w.chromium[cand.v].stores[cand.entry],
                           StoreKey(w.keychain, cand.v)),
              LAMBDA row : Like(row.host_key, domains[cand.domain]))

\* the index of the first selected row whose encrypted_value is NULL, or one
\* past the last row
FirstNull(rows) ==
    IF \E i \in 1..Len(rows) : rows[i].isNull
    THEN CHOOSE i \in 1..Len(rows) :
             rows[i].isNull /\ \A j \in 1..(i - 1) : ~rows[j].isNull
    ELSE Len(rows) + 1

C5_TempCopyRemoved ==
    \A p \in Procs :
        pc[p] \in {"returned", "done"} =>
            \A path \in TempPaths : ~tmp[path].present

\* C5 witness: an extractor returned after it had copied a store whose reading
\* then failed
C5_Witness ==
    /\ pc[1] = "returned"
    /\ loc[1].tempPath \in TempPaths
    /\ loc[1].failure \in {"database", "row"}

\* C6: each of two calls of extractTwitterCookies, also when they run at the
\* same time, returns what the call returns when it runs alone on that host.
C6_SameAsAlone ==
    \A p \in Procs :
        AggDone(p) => retval[p] = extractTwitterCookies(world)


\* the host and library calls that only look at the directory tree
StatCalls == {"existsSync", "readdirSync"}

\* a call of listAvailableBrowsers
Listing(p) == loc[p].task = "listAvailableBrowsers"

\* C13: a call of listAvailableBrowsers makes no call other than existsSync and
\* readdirSync (no keychain lookup, no copy, no database, no decipher, no
\* unlink), leaves no file behind in any place it could write to, and never
\* raises; each list it returns is the one the directory tree determines.
C13_ListOnlyStats ==
    \A p \in Procs :
        Listing(p) =>
            /\ sys[p] \subseteq StatCalls
            /\ \A path \in FilePaths : ~tmp[path].present
            /\ pc[p] # "raised"
            /\ \A i \in 1..Len(loc[p].returned) :
                 loc[p].returned[i] = listAvailableBrowsers(world)

\* C13 witness: listAvailableBrowsers returned a browser on a host where the
\* directory of another browser exists and cannot be listed
C13_Witness ==
    /\ Listing(1)
    /\ pc[1] = "done"
    /\ \E v \in 1..NumVendors : world.chromium[v] = UnlistableDir
    /\ Len(retval[1].browsers) >= 1
    /\ sys[1] = StatCalls

\* C14: the second of two calls of listAvailableBrowsers on an unchanged host
\* returns the list the first returned, in the same order.
C14_ListIdempotent ==
    \A p \in Procs :
        (Listing(p) /\ Len(loc[p].returned) >= 2) =>
            \A i \in 2..Len(loc[p].returned) :
                loc[p].returned[i] = loc[p].returned[1]

\* C14 witness: both calls returned two browsers
C14_Witness ==
    /\ Listing(1)
    /\ pc[1] = "done"
    /\ Len(loc[1].returned) = NumListCalls
    /\ Len(loc[1].returned[1]) = 2
    /\ retval[1].browsers = loc[1].returned[1]

\* C15: no step creates a file at the path of a profile's store and no step
\* changes the browser directories; files are written and deleted only at the
\* temp paths.
C15_ProfilesReadOnly ==
    [][ /\ world' = world
        /\ \A path \in StorePaths : ~tmp'[path].present
        /\ \A path \in FilePaths : tmp'[path] # tmp[path] => path \in TempPaths ]_vars

\* C15 witness: a copy of a store is present at the temp path of the call that
\* made it
C15_Witness ==
    /\ pc[1] \in {"c_read", "f_read"}
    /\ loc[1].tempPath \in TempPaths
    /\ tmp[loc[1].tempPath].present


-----------------------------------------------------------------------------
(* Properties of the key a Chromium store is read with *)

\* the cookies the rows a Chromium call selects hold, read with the key the
\* browser wrote them with
OwnCookies(w, cand) ==
    DecryptRows(SelectedRows(w, cand), StoreKey(w.keychain, cand.v)).cookies

\* C19: a result of extractTwitterCookies that comes from a Chromium store never
\* carries bytes that a decryption with a key other than the store's produced:
\* its auth_token and ct0 are the values the browser stored.
C19_NoGarbageFromKeyMismatch ==
    \A p \in Procs :
        (AggDone(p) /\ retval[p].status = "found" /\ loc[p].cur.kind = "chromium") =>
            LET own == OwnCookies(world, loc[p].cur)
            IN  /\ retval[p].auth_token = FindValue(own, STR_auth_token).value
                /\ retval[p].ct0 = FindValue(own, STR_ct0).value

\* C20: once extractChromiumCookies holds a key for a browser's store, it is the
\* key derived from the secret the keychain keeps under that browser's own
\* service name.
C20_KeyOfOwnService ==
    \A p \in Procs :
        (pc[p] \in {"c_copy", "c_read", "c_unlink"} /\ loc[p].cur.kind = "chromium") =>
            loc[p].key = pbkdf2Sync(KeychainItem(world.keychain,
                                                 ServiceOf(loc[p].cur.v)).secret)

\* the calls that copy or open a store
StoreCalls == {"Date.now", "copyFileSync", "new Database", "createDecipheriv", "unlinkSync"}

\* a call of extractChromiumCookies by itself
ChromiumCall(p) == loc[p].task = "extractChromiumCookies"

\* C23: in a call of extractChromiumCookies the keychain is read only after the
\* store file was found to exist, and a store is copied or opened only after
\* the keychain gave a secret: for a missing file the call returns [] having
\* called existsSync only, and when the lookup fails or gives an empty secret
\* it returns [] with no temporary copy made and no database opened.
C23_ExistsThenKeyThenCopy ==
    \A p \in Procs :
        ChromiumCall(p) =>
            LET store == StoreExists(world.chromium[loc[p].cur.v], loc[p].cur.entry)
                secret == getChromeEncryptionKey(world.keychain).status = "key"
            IN  /\ "Bun.spawnSync security" \in sys[p] => ("existsSync" \in sys[p] /\ store)
                /\ sys[p] \cap StoreCalls # {} =>
                      ("Bun.spawnSync security" \in sys[p] /\ secret)
                /\ (pc[p] \in {"returned", "done"} /\ ~store) =>
                      /\ sys[p] = {"existsSync"}
                      /\ loc[p].cookies = <<>>
                /\ (pc[p] \in {"returned", "done"} /\ store /\ ~secret) =>
                      /\ sys[p] = {"existsSync", "Bun.spawnSync security"}
                      /\ loc[p].cookies = <<>>
                      /\ \A path \in FilePaths : ~tmp[path].present
                /\ pc[p] = "done" /\ (~store \/ ~secret) => retval[p] = ListResult(<<>>)

\* C23 witness: a call on an existing store returned [] because the keychain
\* holds an empty secret
C23_Witness ==
    /\ ChromiumCall(1)
    /\ pc[1] = "done"
    /\ world.keychain = "empty"
    /\ StoreExists(world.chromium[loc[1].cur.v], loc[1].cur.entry)
    /\ Last(log[1]).failure = "keychain"
    /\ retval[1] = ListResult(<<>>)

-----------------------------------------------------------------------------
(* Query ids (src/core/query-ids.ts): the table, the cache file, the cache in
   memory *)

\* JavaScript values a property read can give
Str(s) == [t |-> "string", v |-> s]
Fn(name) == [t |-> "function", v |-> name]
Undefined == [t |-> "undefined", v |-> ""]

\* ToBoolean of such a value
ToBoolean(x) == ~(x.t = "undefined" \/ (x.t = "string" /\ x.v = ""))

\* const FALLBACK_IDS
FALLBACK_IDS ==
    ("CreateTweet" :> "nmdAQXJDxw6-0KKF2on7eA") @@
    ("CreateRetweet" :> "LFho5rIi4xcKO90p9jwG7A") @@
    ("FavoriteTweet" :> "lI07N6Otwv1PhnEgXILM7A") @@
    ("DeleteBookmark" :> "Wlmlj2-xzyS1GN3a6cj-mQ") @@
    ("TweetDetail" :> "_NvJCnIjOW__EP5-RF197A") @@
    ("SearchTimeline" :> "6AAys3t42mosm_yTI_QENg") @@
    ("UserTweets" :> "Wms1GvIiHXAPBaCr9KblaA") @@
    ("UserByScreenName" :> "BQ6xjFU6Mgm-WhEP3OiT9w") @@
    ("Bookmarks" :> "RV1g3b8n_SGOHwkqKYSCFw") @@
    ("Following" :> "mWYeougg_ocJS2Vr1Vt28w") @@
    ("Followers" :> "SFYY3WsgwjlXSLlfnEUE4A") @@
    ("Likes" :> "ETJflBunfqNa1uE1mBPCaw")

\* the properties every object literal and every JSON.parse'd object inherits
\* from Object.prototype
ObjectPrototype ==
    {"constructor", "toString", "toLocaleString", "valueOf", "hasOwnProperty",
     "isPrototypeOf", "propertyIsEnumerable", "__proto__"}

\* obj[key] for an object of string properties: its own property, else the
\* inherited one, else undefined
GetProp(obj, key) ==
    IF key \in DOMAIN obj THEN Str(obj[key])
    ELSE IF key \in ObjectPrototype THEN Fn(key)
    ELSE Undefined

\* const CACHE_TTL_MS
CACHE_TTL_MS == 24 * 60 * 60 * 1000

\* new Date(s).getTime(): the milliseconds of a date string, or NaN
Time(ms) == [valid |-> TRUE, ms |-> ms]
NaN == [valid |-> FALSE, ms |-> 0]

\* a QueryIdCache: fetchedAt, and ids unless the object has no such property
Cache(fetchedAt, hasIds, ids) ==
    [set |-> TRUE, fetchedAt |-> fetchedAt, hasIds |-> hasIds, ids |-> ids]
Null == [set |-> FALSE, fetchedAt |-> NaN, hasIds |-> FALSE, ids |-> <<>>]

\* the file at CACHE_PATH: absent, or text that JSON.parse rejects ("garbage"),
\* parses to null ("null") or parses to an object ("object")
NoCacheFile == [exists |-> FALSE, json |-> "none", cache |-> Null]
CacheFile(json, cache) == [exists |-> TRUE, json |-> json, cache |-> cache]

\* JSON.parse(readFileSync(CACHE_PATH)) followed by the read of cache.fetchedAt:
\* whether either throws
ParseThrows(file) == file.json \in {"garbage", "null"}

\* loadCache(): the cache it returns and memoryCache after the call
loadCache(memoryCache, file, now) ==
    IF memoryCache.set THEN [cache |-> memoryCache, memoryCache |-> memoryCache]
    ELSE IF /\ file.exists
            /\ ~ParseThrows(file)
            /\ file.cache.fetchedAt.valid
            /\ now - file.cache.fetchedAt.ms < CACHE_TTL_MS
         THEN [cache |-> file.cache, memoryCache |-> file.cache]
         ELSE [cache |-> Null, memoryCache |-> memoryCache]

\* what a call gives its caller
Returned(value) == [status |-> "returned", value |-> value]
Raised(what) == [status |-> "raised", value |-> Str(what)]

\* getQueryId(operationName) on the cache loadCache returned
getQueryId(cache, operationName) ==
    IF cache.set /\ ~cache.hasIds THEN Raised("TypeError")
    ELSE LET cached == IF cache.set THEN GetProp(cache.ids, operationName)
                       ELSE Undefined
             fallback == GetProp(FALLBACK_IDS, operationName)
         IN  IF ToBoolean(cached) THEN Returned(cached)
             ELSE IF ToBoolean(fallback) THEN Returned(fallback)
             ELSE Returned(Str(""))

\* getAllQueryIds() on the cache loadCache returned
getAllQueryIds(cache) ==
    IF cache.set /\ cache.hasIds THEN Returned(cache.ids) ELSE Returned(FALLBACK_IDS)

\* isCacheStale() on the cache loadCache returned
isCacheStale(cache, now) ==
    IF ~cache.set THEN Returned(TRUE)
    ELSE Returned(cache.fetchedAt.valid /\ now - cache.fetchedAt.ms > CACHE_TTL_MS)

\* const ids = { ...FALLBACK_IDS } with the discovered ids written over it
MergedIds(discovered) ==
    [name \in DOMAIN FALLBACK_IDS \cup DOMAIN discovered |->
        IF name \in DOMAIN discovered THEN discovered[name] ELSE FALLBACK_IDS[name]]

-----------------------------------------------------------------------------
(* The query-id calls of one process *)

MaxQueryTicks == 3

\* the time the process starts at and the step of its clock
StartMs == 2 * CACHE_TTL_MS
TickMs == CACHE_TTL_MS \div 2

\* the names getQueryId is called with
QueryNames == {"TweetDetail", "CreateTweet", "NonExistentOperation", "", "constructor"}

\* what the bundles may hold for the operation asked for
Discoveries == { <<>>, ("TweetDetail" :> "fresh-TweetDetail-id") }

\* the cache files a process may find: none, unparsable, null, written a
\* moment ago, written two days ago, without a date, without ids
QueryFiles ==
    { NoCacheFile,
      CacheFile("garbage", Null),
      CacheFile("null", Null),
      CacheFile("object", Cache(Time(StartMs), TRUE, MergedIds(("TweetDetail" :> "cached-TweetDetail-id")))),
      CacheFile("object", Cache(Time(StartMs), TRUE, ("TweetDetail" :> "cached-TweetDetail-id"))),
      CacheFile("object", Cache(Time(0), TRUE, FALLBACK_IDS)),
      CacheFile("object", Cache(NaN, TRUE, FALLBACK_IDS)),
      CacheFile("object", Cache(Time(StartMs), FALSE, <<>>)) }

InitQuery ==
    /\ world \in [cacheFile : QueryFiles]
    /\ clock = StartMs
    /\ tmp = <<>>
    /\ pc = [p \in Procs |-> IF p = 1 THEN "q_ready" ELSE "off"]
    /\ loc = [p \in Procs |-> [memoryCache |-> Null]]
    /\ retval = [p \in Procs |-> Returned(FALSE)]
    /\ log = [p \in Procs |-> [call |-> "none", arg |-> ""]]
    /\ sys = [p \in Procs |-> {}]
    /\ NoPure

\* a call of getQueryId(operationName)
GetQueryId(p) ==
    /\ pc[p] = "q_ready"
    /\ \E operationName \in QueryNames :
         LET loaded == loadCache(loc[p].memoryCache, world.cacheFile, clock)
         IN  /\ loc' = [loc EXCEPT ![p].memoryCache = loaded.memoryCache]
             /\ retval' = [retval EXCEPT ![p] = getQueryId(loaded.cache, operationName)]
             /\ log' = [log EXCEPT ![p] = [call |-> "getQueryId", arg |-> operationName]]
    /\ UNCHANGED <<world, clock, tmp, pc, sys, pureVars>>

\* a call of getAllQueryIds()
GetAllQueryIds(p) ==
    /\ pc[p] = "q_ready"
    /\ LET loaded == loadCache(loc[p].memoryCache, world.cacheFile, clock)
       IN  /\ loc' = [loc EXCEPT ![p].memoryCache = loaded.memoryCache]
           /\ retval' = [retval EXCEPT ![p] = getAllQueryIds(loaded.cache)]
    /\ log' = [log EXCEPT ![p] = [call |-> "getAllQueryIds", arg |-> ""]]
    /\ UNCHANGED <<world, clock, tmp, pc, sys, pureVars>>

\* a call of isCacheStale()
IsCacheStale(p) ==
    /\ pc[p] = "q_ready"
    /\ LET loaded == loadCache(loc[p].memoryCache, world.cacheFile, clock)
       IN  /\ loc' = [loc EXCEPT ![p].memoryCache = loaded.memoryCache]
           /\ retval' = [retval EXCEPT ![p] = isCacheStale(loaded.cache, clock)]
    /\ log' = [log EXCEPT ![p] = [call |-> "isCacheStale", arg |-> ""]]
    /\ UNCHANGED <<world, clock, tmp, pc, sys, pureVars>>

\* a call of refreshQueryIds(['TweetDetail']) to its end: the bundles give
\* discovered, and saveCache writes the file and memoryCache unless
\* mkdirSync or writeFileSync throws
RefreshQueryIds(p) ==
    /\ pc[p] = "q_ready"
    /\ \E discovered \in Discoveries, writable \in BOOLEAN :
         LET ids == MergedIds(discovered)
             cache == Cache(Time(clock), TRUE, ids)
         IN  IF DOMAIN discovered # {}
             THEN /\ retval' = [retval EXCEPT ![p] = Returned(ids)]
                  /\ IF writable
                     THEN /\ world' = [world EXCEPT !.cacheFile = CacheFile("object", cache)]
                          /\ loc' = [loc EXCEPT ![p].memoryCache = cache]
                     ELSE UNCHANGED <<world, loc>>
             ELSE /\ retval' = [retval EXCEPT ![p] = Returned(FALLBACK_IDS)]
                  /\ UNCHANGED <<world, loc>>
    /\ log' = [log EXCEPT ![p] = [call |-> "refreshQueryIds", arg |-> "TweetDetail"]]
    /\ UNCHANGED <<clock, tmp, pc, sys, pureVars>>

\* unlinkSync(CACHE_PATH) by the caller
DeleteCacheFile(p) ==
    /\ pc[p] = "q_ready"
    /\ world.cacheFile.exists
    /\ world' = [world EXCEPT !.cacheFile = NoCacheFile]
    /\ log' = [log EXCEPT ![p] = [call |-> "unlinkSync", arg |-> ""]]
    /\ UNCHANGED <<clock, tmp, pc, loc, retval, sys, pureVars>>

\* half a day passes
QueryTick ==
    /\ clock < StartMs + MaxQueryTicks * TickMs
    /\ clock' = clock + TickMs
    /\ UNCHANGED <<world, tmp, pc, loc, retval, log, sys, pureVars>>

QueryStep(p) ==
    \/ GetQueryId(p)
    \/ GetAllQueryIds(p)
    \/ IsCacheStale(p)
    \/ RefreshQueryIds(p)
    \/ DeleteCacheFile(p)

NextQuery == QueryStep(1) \/ QueryTick

SpecQuery == InitQuery /\ [][NextQuery]_vars

-----------------------------------------------------------------------------
(* Properties of the query-id calls *)

\* C17: getQueryId(op) returns the id the loaded cache stores for op, else the
\* id FALLBACK_IDS lists for op, else the empty string.
C17_CacheThenFallbackThenEmpty ==
    \A p \in Procs :
        log[p].call = "getQueryId" =>
            LET cache == loc[p].memoryCache
                op == log[p].arg
                stored == cache.set /\ cache.hasIds /\ op \in DOMAIN cache.ids
            IN  /\ retval[p].status = "returned"
                /\ retval[p].value =
                     Str(IF stored /\ cache.ids[op] # "" THEN cache.ids[op]
                         ELSE IF op \in DOMAIN FALLBACK_IDS THEN FALLBACK_IDS[op]
                         ELSE "")

\* C18: isCacheStale() returns true when there is no file at CACHE_PATH,
\* whatever calls and deletions came before.
C18_StaleWithoutFile ==
    \A p \in Procs :
        (log[p].call = "isCacheStale" /\ ~world.cacheFile.exists) =>
            retval[p] = Returned(TRUE)

-----------------------------------------------------------------------------
(* Properties of the listing, the row selection and the profile locators *)

Listed(browsers) == { browsers[i] : i \in 1..Len(browsers) }

\* a directory of the Firefox profiles directory that is a profile holding a
\* cookie store
FirefoxProfileWithStore(dir, i) ==
    /\ dir.exists /\ dir.listable
    /\ i \in 1..Len(dir.entries)
    /\ Includes(dir.entries[i], STR_dot_default)
         \/ Includes(dir.entries[i], STR_default_release)
    /\ StoreExists(dir, i)

\* C24: listAvailableBrowsers lists a Chromium-family vendor exactly when one
\* of its profile directories (Default, Profile *) holds a cookie file, Firefox
\* exactly when one of its profile directories holds cookies.sqlite, and Safari
\* exactly when its cookie file exists.
C24_ListedIffSomeProfileHasStore ==
    \A p \in Procs :
        (Listing(p) /\ pc[p] = "done") =>
            /\ \A k \in 1..Len(chromiumBrowsers) :
                 chromiumBrowsers[k].name \in Listed(retval[p].browsers)
                   <=> \E i \in 1..Len(world.chromium[chromiumBrowsers[k].dir].entries) :
                          Detected(world.chromium[chromiumBrowsers[k].dir], i)
            /\ "Firefox" \in Listed(retval[p].browsers)
                   <=> \E i \in 1..Len(world.firefox.entries) :
                          FirefoxProfileWithStore(world.firefox, i)
            /\ "Safari" \in Listed(retval[p].browsers) <=> world.safari # "none"


\* C25: the cookies a call of extractChromiumCookies returns come from rows whose
\* host contains the target domain with the same letter case, and every such
\* row with a non-empty value gives a cookie when the query ran to its end; a
\* host that contains the domain only in another letter case gives no cookie.
C25_HostMatchIsCaseSensitive ==
    \A p \in Procs :
        (ChromiumCall(p) /\ pc[p] \in {"returned", "done"}) =>
            LET domain == domains[loc[p].cur.domain]
                rows == ChromiumRows(world.chromium[loc[p].cur.v].stores[loc[p].cur.entry],
                                     StoreKey(world.keychain, loc[p].cur.v))
            IN  /\ \A i \in 1..Len(loc[p].cookies) :
                     Includes(loc[p].cookies[i].domain, domain)
                /\ ("new Database" \in sys[p] /\ loc[p].failure = "") =>
                     \A k \in 1..Len(rows) :
                         (/\ Includes(rows[k].host_key, domain)
                          /\ decryptChromeCookie(rows[k].encrypted_value, loc[p].key) # <<>>)
                         => \E i \in 1..Len(loc[p].cookies) :
                               /\ loc[p].cookies[i].name = rows[k].name
                               /\ loc[p].cookies[i].domain = rows[k].host_key


\* the key the secret now in Chrome's keychain item derives
CurrentKey == pbkdf2Sync(KeychainItem(world.keychain, "Chrome Safe Storage").secret)

\* C26: an invocation of extractChromiumCookies that is past the existence check
\* has looked the secret up itself; while it copies and reads, its key is the
\* one derived from the secret the keychain holds during this invocation, also
\* when an earlier invocation ran under another secret, and the cookies it
\* returns are the rows decrypted with that key.
C26_OwnKeychainReadPerInvocation ==
    \A p \in Procs :
        ChromiumCall(p) =>
            /\ (pc[p] \in {"c_copy", "c_read", "c_unlink"}
                  \/ (pc[p] = "returned" /\ loc[p].failure # "missing"))
               => "Bun.spawnSync security" \in sys[p]
            /\ pc[p] \in {"c_copy", "c_read", "c_unlink"}
               => /\ KeychainItem(world.keychain, "Chrome Safe Storage").exitCode = 0
                  /\ loc[p].key = CurrentKey
            /\ pc[p] = "c_unlink"
               => loc[p].cookies =
                    DecryptRows(SelectedRows(world, loc[p].cur), CurrentKey).cookies
                  \/ loc[p].failure = "database"

\* C26 witness: the second invocation, run after the secret was rotated, read
\* both cookies with a key other than the one the first invocation used
C26_Witness ==
    /\ pc[1] = "done" /\ pc[2] = "returned"
    /\ world.keychain = "rotated"
    /\ loc[1].key # <<>>
    /\ loc[2].key = CurrentKey
    /\ loc[2].key # loc[1].key
    /\ Len(log[1][1].cookies) = 2
    /\ Len(loc[2].cookies) = 2


\* the entries, in a call's list of candidates, of the cookie files it found for
\* browser v
PathsOf(cands, v) ==
    LET found == SelectSeq(cands, LAMBDA c : c.kind = "chromium" /\ c.v = v /\ c.domain = 1)
    IN  [k \in 1..Len(found) |-> found[k].entry]

\* C27: the cookie files findChromiumCookiePaths returned to a call of
\* extractTwitterCookies for a browser are those of the entries named Default
\* or starting with 'Profile ' that hold a cookie file, each once, Default's
\* first and the others in the order of the listing; the list is empty when the
\* root directory is missing, cannot be listed or holds no such profile, and
\* the call never raises.
C27_DefaultThenNumberedProfiles ==
    \A p \in Procs :
        /\ loc[p].task = "extractTwitterCookies" => pc[p] # "raised"
        /\ AggDone(p) =>
            /\ Len(loc[p].cands) >= 4
            /\ \A v \in 1..NumVendors :
                 LET dir == world.chromium[v]
                     paths == PathsOf(loc[p].cands, v)
                     good == { i \in 1..Len(dir.entries) : Detected(dir, i) }
                 IN  /\ { paths[k] : k \in 1..Len(paths) } = good
                     /\ Len(paths) = Cardinality(good)
                     /\ \A j, k \in 1..Len(paths) :
                          j < k => \/ dir.entries[paths[j]] = STR_Default
                                   \/ /\ dir.entries[paths[k]] # STR_Default
                                      /\ paths[j] < paths[k]
                     /\ (~dir.exists \/ ~dir.listable) => paths = <<>>

\* C27 witness: a browser whose listing has 'Profile 1' before 'Default', and
\* 'Profile 2' without a cookie file, gave Default's file, then Profile 1's; a
\* second browser's directory could not be listed
C27_Witness ==
    /\ loc[1].task = "extractTwitterCookies"
    /\ pc[1] = "done"
    /\ \E v \in 1..NumVendors :
         /\ Len(world.chromium[v].entries) = 4
         /\ world.chromium[v].entries[3] = STR_Default
         /\ PathsOf(loc[1].cands, v) = <<3, 1>>
    /\ \E v \in 1..NumVendors :
         /\ world.chromium[v] = UnlistableDir
         /\ PathsOf(loc[1].cands, v) = <<>>


\* C28: when extractTwitterCookies returns cookies, the source it names is one of
\* the browsers listAvailableBrowsers returns on the same host.
C28_SourceIsListed ==
    \A p \in Procs :
        (AggDone(p) /\ retval[p].status = "found") =>
            retval[p].source \in Listed(listAvailableBrowsers(world))

\* C28 witness: the cookies came from Safari on a host where a Chromium-family
\* browser is listed before it
C28_Witness ==
    /\ AggDone(1)
    /\ retval[1].status = "found"
    /\ retval[1].source = "Safari"
    /\ Len(listAvailableBrowsers(world)) >= 2
    /\ listAvailableBrowsers(world)[1] # "Safari"


\* the call of an extractor that extractTwitterCookies just got back yields both
\* cookies
JustYielded(p) ==
    /\ loc[p].task = "extractTwitterCookies"
    /\ pc[p] = "returned"
    /\ YieldsBoth(FindValue(loc[p].cookies, STR_auth_token),
                  FindValue(loc[p].cookies, STR_ct0))

\* C29: once a call of an extractor has yielded both cookies, the next step of
\* extractTwitterCookies is its return of them: no further call is started, no
\* host call is made (no keychain lookup, no copy, no read of another store),
\* no file under /tmp changes; and after it has returned it makes no step.
C29_NothingProbedAfterBoth ==
    [][ \A p \in Procs :
          /\ JustYielded(p) =>
               \/ UNCHANGED vars
               \/ /\ pc'[p] = "done"
                  /\ retval'[p].status = "found"
                  /\ sys'[p] = sys[p]
                  /\ log'[p] = log[p]
                  /\ tmp' = tmp
          /\ AggDone(p) =>
               /\ pc'[p] = pc[p] /\ sys'[p] = sys[p] /\ log'[p] = log[p]
               /\ retval'[p] = retval[p] ]_vars

\* C29 witness: the first call yielded both cookies and extractTwitterCookies
\* returned with later calls unmade and an existing Safari file unread
C29_Witness ==
    /\ AggDone(1)
    /\ retval[1].status = "found"
    /\ Len(log[1]) = 1
    /\ Len(loc[1].cands) >= 4
    /\ world.safari # "none"
    /\ "readFileSync" \notin sys[1]


\* C30: the calls on one profile ask for 'twitter', then for 'x.com'; the pair
\* extractTwitterCookies returns is the pair of one call, the last it made, and
\* no earlier call yielded both; a profile holding a complete pair for each
\* domain gives the pair of 'twitter', and a profile holding auth_token for one
\* domain and ct0 for the other gives nothing.
C30_TwitterBeforeXNeverCombined ==
    \A p \in Procs :
        (loc[p].task = "extractTwitterCookies" /\ pc[p] # "start") =>
            /\ \A k \in 1..Len(loc[p].cands) :
                 loc[p].cands[k].domain = IF k % 2 = 1 THEN 1 ELSE 2
            /\ \A k \in 1..(Len(loc[p].cands) - 1) :
                 k % 2 = 1 =>
                   /\ loc[p].cands[k + 1].kind = loc[p].cands[k].kind
                   /\ loc[p].cands[k + 1].v = loc[p].cands[k].v
                   /\ loc[p].cands[k + 1].entry = loc[p].cands[k].entry
            /\ \A k \in 1..Len(log[p]) : log[p][k].ci = k
            /\ (AggDone(p) /\ retval[p].status = "found") =>
                 LET last == Last(log[p])
                     cand == loc[p].cands[last.ci]
                 IN  /\ retval[p].auth_token = FindValue(last.cookies, STR_auth_token).value
                     /\ retval[p].ct0 = FindValue(last.cookies, STR_ct0).value
                     /\ \A k \in 1..(Len(log[p]) - 1) :
                          ~YieldsBoth(FindValue(log[p][k].cookies, STR_auth_token),
                                      FindValue(log[p][k].cookies, STR_ct0))
                     /\ \A i \in 1..Len(last.cookies) :
                          Like(last.cookies[i].domain, domains[cand.domain])
                     /\ (cand.kind = "chromium"
                           /\ world.chromium[cand.v].stores[cand.entry] = "tw_and_x")
                        => cand.domain = 1
            /\ \A k \in 1..Len(log[p]) :
                 LET cand == loc[p].cands[k]
                 IN  (cand.kind = "chromium"
                        /\ world.chromium[cand.v].stores[cand.entry] = "split")
                     => ~YieldsBoth(FindValue(log[p][k].cookies, STR_auth_token),
                                    FindValue(log[p][k].cookies, STR_ct0))

\* C30 witness: a profile holding a complete pair for each domain gave the pair
\* of 'twitter', after a profile with auth_token for 'twitter' and ct0 for
\* 'x.com' had been asked for both domains and passed over
C30_Witness ==
    /\ AggDone(1)
    /\ retval[1].status = "found"
    /\ Len(log[1]) = 3
    /\ world.chromium[1].stores = <<"split", "tw_and_x">>
    /\ loc[1].cands[3].domain = 1
    /\ retval[1].auth_token = VAL_at
    /\ retval[1].ct0 = VAL_ct

=============================================================================
